---- MODULE Spec2Model ----
(***************************************************************************)
(* State-machine model of the API orchestration engine                     *)
(* (src/src/execution/ApiExecutionEngine.ts) and of the endpoint model it  *)
(* drives (src/src/models/ApiEndpoint.ts).                                 *)
(*                                                                         *)
(* Endpoint ids are the numbers 1..MaxEndpoints; the array handed to       *)
(* executeFlow is <<1, ..., k>>, so an endpoint's id is also its position  *)
(* in the input array (the code compares ids for equality only).           *)
(***************************************************************************)
EXTENDS Integers, Sequences, FiniteSets, TLC

\* ------------------------------------------------------------------ bounds
MaxEndpoints == 3
MaxConnections == 3
MaxRetries == 2
\* The bounds of a numeric parameter in the validated definitions.
MinBound == 1
MaxBound == 2
\* The definitions built from one ParameterBuilder.
MaxBuilds == 1
\* The milliseconds the clock shows while connections are created: 0..MaxClock.
MaxClock == 1

\* ------------------------------------------------------- program constants
DefaultTimeoutMs == 30000
BackoffBase == 2
BackoffUnitMs == 1000
\* callAiWithContext: the unit of its linear wait
RetryUnitMs == 1000
\* validateBodySchema: the ceiling on JSON.stringify(aiResponse).length
MaxBodySize == 10000

Ids == 1..MaxEndpoints
NoId == 0

\* ---------------------------------------------------------------- values
EmptyMap == <<>>
Undefined == [t |-> "undefined"]
Null == [t |-> "null"]
Str(s) == [t |-> "string", v |-> s]
Num(n) == [t |-> "number", v |-> n]
Bool(b) == [t |-> "boolean", v |-> b]
Arr(items) == [t |-> "array", v |-> items]

Put(m, k, v) == (k :> v) @@ m
Has(m, k) == k \in DOMAIN m

RECURSIVE SeqToSet(_)
SeqToSet(s) == IF s = <<>> THEN {} ELSE {Head(s)} \cup SeqToSet(Tail(s))

\* ------------------------------------------------------------- connections
\* EndpointConnection (src/src/models/EndpointConnection.ts)
Connection(src, tgt, sType, tType, tr) ==
    [ sourceNodeId   |-> src,
      targetNodeId   |-> tgt,
      sourceField    |-> <<"id">>,
      targetField    |-> "id",
      targetLocation |-> "query",
      transform      |-> tr,
      sourceType     |-> sType,
      targetType     |-> tType,
      validated      |-> FALSE ]

UntypedConnection(src, tgt) == Connection(src, tgt, "", "", "")

\* ---------------------------------------------------------------- endpoint
\* endpoint.auth and this.globalAuth when they are not set
NoAuth == [type |-> "undefined", token |-> ""]

\* ApiEndpoint constructor: the defaults of an endpoint the caller gives only
\* id, method, baseUrl and path.
PlainEndpoint(i) ==
    [ id                   |-> i,
      method               |-> "GET",
      baseUrl              |-> "https://api",
      path                 |-> <<"/items">>,
      queryParams          |-> EmptyMap,
      pathParams           |-> EmptyMap,
      headers              |-> EmptyMap,
      hasBody              |-> FALSE,
      bodyContent          |-> EmptyMap,
      hasBodySchema        |-> FALSE,
      bodySchema           |-> EmptyMap,
      resolvedParams       |-> EmptyMap,
      resolvedBody         |-> EmptyMap,
      auth                 |-> NoAuth,
      expectedResponse     |-> {},
      naturalLanguageInput |-> "",
      connections          |-> <<>>,
      timeout              |-> DefaultTimeoutMs,
      retries              |-> 0 ]

\* !value of JavaScript
Falsy(value) ==
    \/ value.t \in {"undefined", "null", "NaN"}
    \/ value.t = "number" /\ value.v = 0
    \/ value.t = "string" /\ value.v = ""
    \/ value.t = "boolean" /\ ~value.v

\* ApiEndpoint.validate: the list of configuration errors. resolvedParams and
\* resolvedBody are aiMapping.resolvedParams and aiMapping.resolvedBody, empty
\* when the endpoint has no aiMapping.
validate(ep) ==
    (IF ep.baseUrl = "" THEN <<"Base URL is required">> ELSE <<>>)
    \o (IF ep.path = <<>> THEN <<"Path is required">> ELSE <<>>)
    \o (IF \E k \in DOMAIN ep.queryParams :
              /\ ep.queryParams[k].required
              /\ Falsy(ep.queryParams[k].defaultValue)
              /\ (k \in DOMAIN ep.resolvedParams => Falsy(ep.resolvedParams[k]))
        THEN <<"Required query parameter has no default value or AI mapping">>
        ELSE <<>>)

\* ------------------------------------------------------ dependency resolver
\* The traversal state of sortEndpointsByDependencies: the closure variables
\* sorted, visited, visiting, and the endpoint id of the thrown error.
SortStart == [sorted |-> <<>>, visited |-> {}, visiting |-> {}, error |-> NoId]

\* endpoints.find(ep => ep.id === id) over the input array
InInput(input, id) == \E i \in 1..Len(input) : input[i] = id

RECURSIVE visit(_, _, _, _), visitConnections(_, _, _, _, _)
visit(eps, input, st, id) ==
    IF st.error # NoId THEN st
    ELSE IF id \in st.visiting THEN [st EXCEPT !.error = id]
    ELSE IF id \in st.visited THEN st
    ELSE LET entered == [st EXCEPT !.visiting = @ \cup {id}]
             after   == visitConnections(eps, input, entered, id, 1)
         IN  IF after.error # NoId THEN after
             ELSE [after EXCEPT !.visiting = @ \ {id},
                                !.visited = @ \cup {id},
                                !.sorted = Append(@, id)]

\* (mutant) the dependencies of an endpoint are not visited before it
visitConnectionsSkipped(eps, input, st, id, i) == st

visitConnections(eps, input, st, id, i) ==
    IF i > Len(eps[id].connections) \/ st.error # NoId THEN st
    ELSE LET dep  == eps[id].connections[i].sourceNodeId
             next == IF InInput(input, dep) THEN visit(eps, input, st, dep) ELSE st
         IN  visitConnections(eps, input, next, id, i + 1)

\* (mutant) the input array is walked from its end
RECURSIVE visitAllBackwards(_, _, _, _)
visitAllBackwards(eps, input, st, i) ==
    IF i > Len(input) THEN st
    ELSE visitAllBackwards(eps, input, visit(eps, input, st, input[Len(input) + 1 - i]), i + 1)

RECURSIVE visitAll(_, _, _, _)
visitAll(eps, input, st, i) ==
    IF i > Len(input) THEN st
    ELSE visitAll(eps, input, visit(eps, input, st, input[i]), i + 1)

\* (mutant) the error names the endpoint the traversal started from
sortNamingFirst(eps, input) ==
    LET st == visitAll(eps, input, SortStart, 1)
    IN  IF st.error # NoId THEN [st EXCEPT !.error = input[1]] ELSE st

\* sortEndpointsByDependencies: error = NoId and sorted is the order, or
\* error is the endpoint id named by the circular-dependency error.
sortEndpointsByDependencies(eps, input) == visitAll(eps, input, SortStart, 1)

\* ------------------------------------------------- type compatibility
\* ParameterType
ParameterTypes == {"string", "number", "boolean", "object", "array"}

\* ConnectionBuilder.areTypesCompatible
areTypesCompatible(sourceType, targetType) ==
    \/ sourceType = targetType
    \/ targetType = "string"
    \/ (targetType = "number" /\ sourceType = "string")
    \/ (targetType = "boolean" /\ sourceType = "string")

\* ConnectionBuilder.validateCompatibility, called by the constructor before
\* any transform is attached (TransformedProperty.mapTo calls withTransform on
\* the constructed builder): the error thrown, "" for none.
validateCompatibility(sourceType, targetType, targetLocation) ==
    IF ~areTypesCompatible(sourceType, targetType) THEN "Incompatible types"
    ELSE IF targetLocation = "path" /\ sourceType \notin {"string", "number"}
    THEN "Path parameters must be string or number type"
    ELSE ""

\* areTypesCompatibleEnhanced
areTypesCompatibleEnhanced(sourceType, targetType) ==
    \/ sourceType = targetType
    \/ targetType = "string"
    \/ (targetType = "number" /\ sourceType = "string")
    \/ (targetType = "boolean" /\ sourceType = "string")
    \/ (targetType = "object" /\ sourceType \in {"array", "object"})

\* isValidTransformation: the table of allowed source and target types
validTransformations ==
    ("string" :> [from |-> {"string", "number", "boolean", "array", "object"}, to |-> {"string"}])
    @@ ("number" :> [from |-> {"string", "number"}, to |-> {"number"}])
    @@ ("boolean" :> [from |-> {"string", "boolean"}, to |-> {"boolean"}])
    @@ ("bearer-prefix" :> [from |-> {"string"}, to |-> {"string"}])
    @@ ("array-wrap" :> [from |-> {"string", "number", "boolean", "object"}, to |-> {"array"}])
    @@ ("array-first" :> [from |-> {"array"}, to |-> {"string", "number", "boolean", "object"}])
    @@ ("upper" :> [from |-> {"string"}, to |-> {"string"}])
    @@ ("lower" :> [from |-> {"string"}, to |-> {"string"}])
    @@ ("trim" :> [from |-> {"string"}, to |-> {"string"}])

\* An isValidTransformation that lets pass every name without a rule.
isValidTransformationOpen(transformName, sourceType, targetType) ==
    transformName \in DOMAIN validTransformations =>
        /\ sourceType \in validTransformations[transformName].from
        /\ targetType \in validTransformations[transformName].to

\* isValidTransformation: false when the table has no rule of that name
isValidTransformation(transformName, sourceType, targetType) ==
    /\ transformName \in DOMAIN validTransformations
    /\ sourceType \in validTransformations[transformName].from
    /\ targetType \in validTransformations[transformName].to

\* validateTypedConnections: walks the typed connections in order, marks each
\* one that passes, and stops at the first that fails.  Returns the
\* connections as the walk leaves them and the error thrown ("" for none).
RECURSIVE validateTypedConnectionsFrom(_, _)
validateTypedConnectionsFrom(conns, i) ==
    IF i > Len(conns) THEN [connections |-> conns, error |-> ""]
    ELSE LET c == conns[i] IN
         IF c.sourceType = "" \/ c.targetType = ""
         THEN validateTypedConnectionsFrom(conns, i + 1)
         ELSE IF ~areTypesCompatibleEnhanced(c.sourceType, c.targetType)
         THEN [connections |-> conns, error |-> "Type incompatible connection"]
         ELSE IF c.transform # "" /\ ~isValidTransformation(c.transform, c.sourceType, c.targetType)
         THEN [connections |-> conns, error |-> "Invalid transformation"]
         ELSE validateTypedConnectionsFrom([conns EXCEPT ![i].validated = TRUE], i + 1)

validateTypedConnections(ep) == validateTypedConnectionsFrom(ep.connections, 1)

\* ------------------------------------------------------ connection resolver
Obj(m) == [t |-> "object", v |-> m]

\* Object.keys(value) and value[key] of JavaScript
OwnKeys(value) ==
    CASE value.t = "object" -> DOMAIN value.v
      [] value.t = "array" -> {ToString(i - 1) : i \in 1..Len(value.v)}
      [] OTHER -> {}
Get(value, key) ==
    CASE value.t = "object" /\ key \in DOMAIN value.v -> value.v[key]
      [] value.t = "array" /\ key \in OwnKeys(value) ->
            value.v[CHOOSE i \in 1..Len(value.v) : ToString(i - 1) = key]
      [] OTHER -> Undefined

\* extractValueFromResult: sourceField is the dot-separated path, given as the
\* sequence of its parts ("" for the empty path, which yields the whole body).
RECURSIVE extractFrom(_, _, _)
extractFrom(current, parts, i) ==
    IF i > Len(parts) THEN current
    ELSE IF parts[i] = "" THEN extractFrom(current, parts, i + 1)
    ELSE IF parts[i] \in OwnKeys(current)
         THEN extractFrom(Get(current, parts[i]), parts, i + 1)
    ELSE IF current.t = "array" /\ parts[i] = "length"
         THEN extractFrom(Num(Len(current.v)), parts, i + 1)
    \* `part in current` also holds for the properties an object or an array
    \* inherits, constructor and toString among them: functions
    ELSE IF current.t \in {"object", "array"} /\ parts[i] \in {"constructor", "toString"}
         THEN extractFrom([t |-> "function", v |-> parts[i]], parts, i + 1)
         ELSE Undefined

extractValueFromResult(result, sourceField) ==
    IF sourceField = <<>> \/ sourceField = <<"">> THEN result.responseData.body
    ELSE extractFrom(result.responseData.body, sourceField, 1)

\* The default values of a parameter map (getResolvedParams and the pathParams
\* loop of resolveEndpointData).
DefaultsOf(params) ==
    [k \in {n \in DOMAIN params : params[n].defaultValue # Undefined} |-> params[k].defaultValue]

\* getResolvedParams with the spread the other way round: the defaults last.
getResolvedParamsDefaultsLast(ep) == DefaultsOf(ep.queryParams) @@ ep.resolvedParams

\* ApiEndpoint.getResolvedParams: { ...staticParams, ...resolvedParams }
getResolvedParams(ep) == ep.resolvedParams @@ DefaultsOf(ep.queryParams)

\* ApiEndpoint.getResolvedBody: { ...content, ...resolvedBody }
getResolvedBody(ep) == IF ep.hasBody THEN Obj(ep.resolvedBody @@ ep.bodyContent) ELSE Null

\* String(value) of JavaScript
RECURSIVE String(_)
String(value) ==
    CASE value.t = "string" -> value
      [] value.t = "number" -> Str(ToString(value.v))
      [] value.t = "boolean" -> Str(IF value.v THEN "true" ELSE "false")
      [] value.t = "object" -> Str("[object Object]")
      [] value.t = "array" ->
            LET item(i) == IF value.v[i].t \in {"null", "undefined"} THEN ""
                           ELSE String(value.v[i]).v
            IN  CASE Len(value.v) = 0 -> Str("")
                  [] Len(value.v) = 1 -> Str(item(1))
                  [] OTHER -> Str(item(1) \o "," \o String(Arr(Tail(value.v))).v)
      [] OTHER -> Str(value.t)

\* Number(value) of JavaScript; Numerals are the numeric strings of the model.
NaN == [t |-> "NaN", v |-> 0]
Numerals == ("7" :> 7) @@ ("" :> 0)
Number(value) ==
    LET text == IF value.t = "array" THEN String(value) ELSE value IN
    CASE value.t = "number" -> value
      [] value.t = "boolean" -> Num(IF value.v THEN 1 ELSE 0)
      [] value.t = "null" -> Num(0)
      [] text.t = "string" -> IF text.v \in DOMAIN Numerals THEN Num(Numerals[text.v]) ELSE NaN
      [] OTHER -> NaN

\* applyTransformation (the connections of the model name none of upper,
\* lower, trim, basic-auth, json-stringify and url-encode).
applyTransformation(value, transform) ==
    CASE transform = "string" -> String(value)
      [] transform = "number" -> Number(value)
      [] transform = "boolean" -> Bool(~Falsy(value))
      [] transform = "bearer-prefix" -> Str("Bearer " \o String(value).v)
      [] transform = "array-wrap" -> IF value.t = "array" THEN value ELSE Arr(<<value>>)
      [] transform = "array-first" ->
            IF value.t # "array" THEN value
            ELSE IF value.v = <<>> THEN Undefined ELSE value.v[1]
      [] OTHER -> value

\* The connection loop without its two tests: the value is taken from any
\* stored result, whatever it is.
applyConnectionUnchecked(results, data, c) ==
    IF ~Has(results, c.sourceNodeId) THEN data
    ELSE LET extracted == extractValueFromResult(results[c.sourceNodeId], c.sourceField)
             value == IF c.transform # "" THEN applyTransformation(extracted, c.transform)
                      ELSE extracted
         IN  CASE c.targetLocation = "query" ->
                     [data EXCEPT !.queryParams = Put(@, c.targetField, value)]
                [] c.targetLocation = "body" ->
                     [data EXCEPT !.body = Obj(Put(IF @ = Null THEN EmptyMap ELSE @.v,
                                                   c.targetField, value))]
                [] c.targetLocation = "header" ->
                     [data EXCEPT !.headers = Put(@, c.targetField, String(value))]
                [] c.targetLocation = "path" ->
                     [data EXCEPT !.pathParams = Put(@, c.targetField, value)]
                [] OTHER -> data

\* One iteration of the connection loop of resolveEndpointData.
applyConnection(results, data, c) ==
    IF ~Has(results, c.sourceNodeId) \/ ~results[c.sourceNodeId].success THEN data
    ELSE LET extracted == extractValueFromResult(results[c.sourceNodeId], c.sourceField)
             value == IF c.transform # "" THEN applyTransformation(extracted, c.transform)
                      ELSE extracted
         IN
         IF extracted = Undefined THEN data
         ELSE CASE c.targetLocation = "query" ->
                     [data EXCEPT !.queryParams = Put(@, c.targetField, value)]
                [] c.targetLocation = "body" ->
                     [data EXCEPT !.body = Obj(Put(IF @ = Null THEN EmptyMap ELSE @.v,
                                                   c.targetField, value))]
                [] c.targetLocation = "header" ->
                     [data EXCEPT !.headers = Put(@, c.targetField, String(value))]
                [] c.targetLocation = "path" ->
                     [data EXCEPT !.pathParams = Put(@, c.targetField, value)]
                [] OTHER -> data

RECURSIVE applyConnections(_, _, _, _)
applyConnections(results, data, conns, i) ==
    IF i > Len(conns) THEN data
    ELSE applyConnections(results, applyConnection(results, data, conns[i]), conns, i + 1)

\* resolveEndpointData
resolveEndpointData(ep, results) ==
    applyConnections(results,
                     [ queryParams |-> getResolvedParams(ep),
                       pathParams  |-> DefaultsOf(ep.pathParams),
                       body        |-> getResolvedBody(ep),
                       headers     |-> ep.headers ],
                     ep.connections, 1)

\* ------------------------------------------------------------------ results
\* encodeURIComponent(value): the text of the value with every character
\* outside A-Z a-z 0-9 - _ . ! ~ * ' ( ) replaced by its percent code.
\* Spelling gives the characters of the texts of the model; the text of a
\* number, of a boolean, of null, undefined and NaN has no character to replace.
Spelling ==
    ("" :> <<>>) @@ ("a" :> <<"a">>) @@ ("7" :> <<"7">>)
    @@ ("a b" :> <<"a", " ", "b">>) @@ ("a/b" :> <<"a", "/", "b">>)
    @@ ("[object Object]" :> <<"[", "o", "b", "j", "e", "c", "t", " ",
                               "O", "b", "j", "e", "c", "t", "]">>)
PercentCodes ==
    (" " :> "%20") @@ ("/" :> "%2F") @@ ("[" :> "%5B") @@ ("]" :> "%5D")
    @@ ("{" :> "%7B") @@ ("}" :> "%7D")
\* The text of the value as it is, nothing replaced.
rawText(value) == String(value).v
RECURSIVE Concat(_)
Concat(texts) == IF texts = <<>> THEN "" ELSE Head(texts) \o Concat(Tail(texts))
encodeURIComponent(value) ==
    IF value.t \in {"number", "boolean", "null", "undefined", "NaN"} THEN String(value).v
    ELSE LET chars == Spelling[String(value).v] IN
         Concat([i \in 1..Len(chars) |->
                    IF chars[i] \in DOMAIN PercentCodes THEN PercentCodes[chars[i]]
                    ELSE chars[i]])

\* ApiEndpoint.getFullUrl(pathValues): the path is the sequence of its pieces,
\* a piece being a placeholder {name} or text without placeholder; replace()
\* with a string pattern replaces the first occurrence only. The call without
\* path values is the one with no value.
getFullUrl(ep, pathValues) ==
    LET piece(i) ==
            IF \E key \in DOMAIN pathValues :
                   /\ ep.path[i] = "{" \o key \o "}"
                   /\ \A j \in 1..(i - 1) : ep.path[j] # ep.path[i]
            THEN encodeURIComponent(
                     pathValues[CHOOSE key \in DOMAIN pathValues : ep.path[i] = "{" \o key \o "}"])
            ELSE ep.path[i]
    IN  ep.baseUrl \o Concat([i \in 1..Len(ep.path) |-> piece(i)])

\* The ExecutionResult built after a response arrived (executeEndpoint, try).
SuccessResult(ep, requestConfig, resolvedData, response) ==
    [ endpointId   |-> ep.id,
      success      |-> TRUE,
      statusCode   |-> response.status,
      requestData  |-> [ url         |-> requestConfig.url,
                         method      |-> requestConfig.method,
                         headers     |-> requestConfig.headers,
                         queryParams |-> resolvedData.queryParams,
                         body        |-> resolvedData.body ],
      responseData |-> [ headers |-> response.headers,
                         body    |-> response.data ],
      error        |-> "" ]

\* The ExecutionResult built in the catch block of executeEndpoint.
FailureResult(ep, message) ==
    [ endpointId   |-> ep.id,
      success      |-> FALSE,
      statusCode   |-> 0,
      requestData  |-> [ url         |-> getFullUrl(ep, EmptyMap),
                         method      |-> ep.method,
                         headers     |-> EmptyMap,
                         queryParams |-> EmptyMap,
                         body        |-> Undefined ],
      responseData |-> [ headers |-> EmptyMap,
                         body    |-> Null ],
      error        |-> message ]

\* --------------------------------------------------------- request building
\* The slots processAiResolution asks the model about, in its order.
AiSlots(ep) ==
    (IF DOMAIN ep.pathParams # {} THEN <<"path">> ELSE <<>>)
    \o (IF DOMAIN ep.queryParams # {} THEN <<"query">> ELSE <<>>)
    \o (IF ep.hasBody /\ ep.method # "GET" THEN <<"body">> ELSE <<>>)

\* ---------------------------------------------------------- model responses
\* A model response is a sequence of pieces of text: the code fence (three
\* backquotes, with or without json and a line end), the
\* single characters { } [ ] 9 x, the literal null, and the members of an
\* object ("id:9" stands for "id":9, "id:s" for "id":"a").
Fence == "fence"
SingleChars == {"{", "}", "[", "]", "9", "x"}
Members ==
    ("id:9" :> ("id" :> Num(9)))
    @@ ("id:null" :> ("id" :> Null))
    @@ ("id:s" :> ("id" :> Str("a")))
    @@ ("zz:9" :> ("zz" :> Num(9)))
    @@ ("id:9,zz:9" :> (("id" :> Num(9)) @@ ("zz" :> Num(9))))
    @@ ("id:9,zz:long" :> (("id" :> Num(9)) @@ ("zz" :> Str("long"))))

FirstOf(text, piece) ==
    IF \E i \in 1..Len(text) : text[i] = piece
    THEN CHOOSE i \in 1..Len(text) : text[i] = piece /\ \A j \in 1..(i - 1) : text[j] # piece
    ELSE 0
LastOf(text, piece) ==
    IF \E i \in 1..Len(text) : text[i] = piece
    THEN CHOOSE i \in 1..Len(text) : text[i] = piece /\ \A j \in (i + 1)..Len(text) : text[j] # piece
    ELSE 0

\* cleaned.match(/^[^{]*({.*})[^}]*$/s): the text from the first { to the
\* last }, or <<>> when the pattern does not match.
objectMatch(cleaned) ==
    LET i == FirstOf(cleaned, "{")
        j == LastOf(cleaned, "}")
    IN  IF i > 0 /\ j > i THEN SubSeq(cleaned, i, j) ELSE <<>>

\* cleaned.match(/^[^[]*(\[.*\])[^]]*$/s): in a JavaScript pattern [^] is any
\* one character, so the capture, from the first [ to a ], must be followed
\* by exactly one character and then by nothing but ] characters.
arrayMatch(cleaned) ==
    LET i == FirstOf(cleaned, "[")
        n == Len(cleaned)
        ends == {j \in (i + 1)..(n - 1) :
                    /\ cleaned[j] = "]"
                    /\ cleaned[j + 1] \in SingleChars
                    /\ \A k \in (j + 2)..n : cleaned[k] = "]"}
    IN  IF i > 0 /\ ends # {}
        THEN SubSeq(cleaned, i, CHOOSE j \in ends : \A k \in ends : k <= j)
        ELSE <<>>

\* cleanAiJsonResponse (the throws for an empty capture cannot be reached: a
\* capture holds at least its two brackets).
cleanAiJsonResponse(response) ==
    LET cleaned == SelectSeq(response, LAMBDA piece : piece # Fence) IN
    IF objectMatch(cleaned) # <<>> THEN objectMatch(cleaned)
    ELSE IF arrayMatch(cleaned) # <<>> THEN arrayMatch(cleaned)
    ELSE cleaned

RECURSIVE DigitsValue(_)
DigitsValue(n) == IF n = 1 THEN 9 ELSE 10 * DigitsValue(n - 1) + 9

\* JSON.parse: ok is FALSE for a SyntaxError.
RECURSIVE JSONparse(_)
JSONparse(text) ==
    LET n == Len(text)
        failed == [ok |-> FALSE, value |-> Undefined]
    IN  IF n = 0 THEN failed
        ELSE IF \A i \in 1..n : text[i] = "9" THEN [ok |-> TRUE, value |-> Num(DigitsValue(n))]
        ELSE IF text = <<"null">> THEN [ok |-> TRUE, value |-> Null]
        ELSE IF text[1] = "{" /\ text[n] = "}"
        THEN IF n = 2 THEN [ok |-> TRUE, value |-> Obj(EmptyMap)]
             ELSE IF n = 3 /\ text[2] \in DOMAIN Members
                  THEN [ok |-> TRUE, value |-> Obj(Members[text[2]])]
                  ELSE failed
        ELSE IF text[1] = "[" /\ text[n] = "]"
        THEN IF n = 2 THEN [ok |-> TRUE, value |-> Arr(<<>>)]
             ELSE LET inner == JSONparse(SubSeq(text, 2, n - 1)) IN
                  IF inner.ok THEN [ok |-> TRUE, value |-> Arr(<<inner.value>>)] ELSE failed
        ELSE failed

\* SchemaValidation. A definition is a record with type, required and
\* defaultValue and, when given, validation (with min, max, pattern, enum when
\* given), items and properties. The operators give the errors array.
\* An isEmpty that knows null and undefined only.
isEmptyNullish(value) == value.t \in {"null", "undefined"}
isEmpty(value) == value.t \in {"null", "undefined"} \/ (value.t = "string" /\ value.v = "")
validateType(value, expectedType) ==
    expectedType \in {"string", "number", "boolean", "array", "object"} /\ value.t = expectedType

\* validateConstraints with strict bounds.
validateConstraintsStrict(value, definition) ==
    IF "validation" \notin DOMAIN definition \/ value.t # "number" THEN <<>>
    ELSE (IF "min" \in DOMAIN definition.validation /\ value.v <= definition.validation.min
          THEN <<"is below minimum">> ELSE <<>>)
         \o (IF "max" \in DOMAIN definition.validation /\ value.v >= definition.validation.max
             THEN <<"is above maximum">> ELSE <<>>)

\* validateConstraints: new RegExp(pattern).test(value) is given for the
\* patterns and texts of the model; enum.includes(value) finds a text, a
\* number or a boolean that is listed, never an object or an array (they are
\* other objects than the listed ones).
validateConstraints(value, definition) ==
    IF "validation" \notin DOMAIN definition THEN <<>>
    ELSE LET validation == definition.validation
             matches == ("^a$" :> {"a"}) @@ ("^[0-9]+$" :> {"7"})
         IN  (IF value.t = "number" /\ "min" \in DOMAIN validation /\ value.v < validation.min
              THEN <<"is below minimum">> ELSE <<>>)
             \o (IF value.t = "number" /\ "max" \in DOMAIN validation /\ value.v > validation.max
                 THEN <<"is above maximum">> ELSE <<>>)
             \o (IF value.t = "string" /\ "pattern" \in DOMAIN validation
                    /\ validation.pattern # "" /\ value.v \notin matches[validation.pattern]
                 THEN <<"does not match required pattern">> ELSE <<>>)
             \o (IF "enum" \in DOMAIN validation
                    /\ (value.t \in {"object", "array"} \/ value \notin SeqToSet(validation.enum))
                 THEN <<"is not in allowed values">> ELSE <<>>)

RECURSIVE validateParameterErrors(_, _)
\* validateObject: the errors of the properties in `names`, in some order of
\* the names.
RECURSIVE validateObject(_, _, _)
validateObject(value, properties, names) ==
    IF value.t \notin {"object", "array"} THEN <<"Expected object type for nested validation">>
    ELSE IF names = {} THEN <<>>
    ELSE LET name == CHOOSE n \in names : TRUE IN
         validateParameterErrors(Get(value, name), properties[name])
         \o validateObject(value, properties, names \ {name})

\* validateArray: the errors of the items from the i-th on.
RECURSIVE validateArray(_, _, _)
validateArray(value, itemDefinition, i) ==
    IF value.t # "array" THEN <<"Expected array type for array validation">>
    ELSE IF i > Len(value.v) THEN <<>>
    ELSE validateParameterErrors(value.v[i], itemDefinition)
         \o validateArray(value, itemDefinition, i + 1)

\* validateParameter: result.errors
validateParameterErrors(value, definition) ==
    IF definition.required /\ isEmpty(value) THEN <<"is missing or empty">>
    ELSE IF isEmpty(value) THEN <<>>
    ELSE (IF ~validateType(value, definition.type) THEN <<"expected type">> ELSE <<>>)
         \o validateConstraints(value, definition)
         \o (IF definition.type = "object" /\ "properties" \in DOMAIN definition
             THEN validateObject(value, definition.properties, DOMAIN definition.properties)
             ELSE IF definition.type = "array" /\ "items" \in DOMAIN definition
             THEN validateArray(value, definition.items, 1)
             ELSE <<>>)

\* A validateParameter that asks nothing of a value that is missing.
validateParameterIfPresent(value, definition) ==
    IF isEmpty(value) THEN {} ELSE SeqToSet(validateParameterErrors(value, definition))

\* The set of the errors of validateParameter.
validateParameter(value, definition) == SeqToSet(validateParameterErrors(value, definition))
validateParameters(values, definitions) ==
    UNION {{<<name, error>> : error \in validateParameter(Get(values, name), definitions[name])} :
              name \in DOMAIN definitions}

\* validateBodySchema (the size limit is left out): the errors.
\* JSON.stringify(value).length for the values a model response holds; the
\* text "long" stands for a text of MaxBodySize characters, every other text
\* and every key is taken by its letters, and a number has up to four digits.
RECURSIVE stringifiedLength(_)
RECURSIVE LengthOfMembers(_, _)
LengthOfMembers(value, keys) ==
    IF keys = {} THEN 0
    ELSE LET key == CHOOSE k \in keys : TRUE
             letters == ("id" :> 2) @@ ("zz" :> 2)
         IN  (IF value.t = "object" THEN letters[key] + 3 ELSE 0)
             + stringifiedLength(Get(value, key))
             + (IF keys = {key} THEN 0 ELSE 1)
             + LengthOfMembers(value, keys \ {key})
stringifiedLength(value) ==
    CASE value.t = "number" ->
            IF value.v < 10 THEN 1 ELSE IF value.v < 100 THEN 2 ELSE IF value.v < 1000 THEN 3 ELSE 4
      [] value.t = "string" -> 2 + (IF value.v = "long" THEN MaxBodySize ELSE 1)
      [] value.t = "boolean" -> IF value.v THEN 4 ELSE 5
      [] value.t \in {"object", "array"} -> 2 + LengthOfMembers(value, OwnKeys(value))
      [] OTHER -> 4

\* validateBodySchema: the errors for which it throws
validateBodySchema(aiResponse, ep) ==
    IF ~ep.hasBodySchema
    THEN IF aiResponse.t \in {"object", "array"} THEN {}
         ELSE {<<"", "AI body response must be a valid JSON object">>}
    ELSE IF validateParameters(aiResponse, ep.bodySchema) # {}
    THEN validateParameters(aiResponse, ep.bodySchema)
    ELSE IF stringifiedLength(aiResponse) > MaxBodySize
    THEN {<<"", "AI body response too large">>}
    ELSE {}

\* The merge at the end of resolvePathParameters / resolveQueryParameters /
\* resolveBodyParameters, for a parsed and validated model result ai.
mergeAiResult(ep, data, slot, ai) ==
    CASE slot = "path" ->
           [data EXCEPT !.pathParams =
               [k \in DOMAIN @ |-> IF k \in OwnKeys(ai) THEN Get(ai, k) ELSE @[k]]]
      [] slot = "query" ->
           [data EXCEPT !.queryParams =
               [k \in DOMAIN @ \cup (DOMAIN ep.queryParams \cap OwnKeys(ai)) |->
                   IF k \in DOMAIN ep.queryParams \cap OwnKeys(ai) THEN Get(ai, k) ELSE @[k]]]
      [] OTHER ->
           [data EXCEPT !.body =
               IF @ = Null THEN ai
               ELSE Obj([k \in OwnKeys(ai) \cup DOMAIN @.v |->
                            IF k \in OwnKeys(ai) THEN Get(ai, k) ELSE @.v[k]])]

\* The error messages of a resolver, by slot.
NotJsonMessage(slot) ==
    IF slot = "body" THEN "AI body response is not valid JSON"
    ELSE "AI " \o slot \o " parameter response is not valid JSON"
ValidationMessage(slot) == "AI " \o slot \o " response validation failed"
ResolutionMessage(slot) == "AI " \o slot \o " parameter resolution failed"

\* The try block of resolvePathParameters / resolveQueryParameters /
\* resolveBodyParameters after the completion call returned `response`:
\* sanitation, parsing, schema validation, merge; error is the message thrown.
resolveSlot(ep, data, slot, response) ==
    LET cleaned == cleanAiJsonResponse(response)
        parsed  == JSONparse(cleaned)
        ai      == parsed.value
        errors  == IF ~parsed.ok \/ ai.t = "null" THEN {}
                   ELSE IF slot = "body" THEN validateBodySchema(ai, ep)
                   ELSE validateParameters(ai, IF slot = "path" THEN ep.pathParams
                                                ELSE ep.queryParams)
        error   == IF ~parsed.ok THEN NotJsonMessage(slot)
                   ELSE IF ai.t = "null"
                   THEN IF slot = "body" /\ ~ep.hasBodySchema
                        THEN "AI body response must be a valid JSON object"
                        ELSE ResolutionMessage(slot)
                   ELSE IF errors = {} THEN ""
                   ELSE IF slot = "body" /\ ~ep.hasBodySchema
                        THEN "AI body response must be a valid JSON object"
                   ELSE IF errors = {<<"", "AI body response too large">>}
                        THEN "AI body response too large"
                        ELSE ValidationMessage(slot)
    IN  [ slot |-> slot, response |-> response, cleaned |-> cleaned,
          parsed |-> parsed.ok, ai |-> ai, errors |-> errors, error |-> error,
          before |-> data,
          after |-> IF error = "" THEN mergeAiResult(ep, data, slot, ai) ELSE data ]

\* buildRequestConfig after the AI step: the RequestData handed to auth.
buildRequestConfig(ep, data) ==
    [ url         |-> getFullUrl(ep, data.pathParams),
      method      |-> ep.method,
      headers     |-> IF data.body # Null /\ ~Has(data.headers, "Content-Type")
                         /\ ep.method # "GET"
                      THEN Put(data.headers, "Content-Type", Str("application/json"))
                      ELSE data.headers,
      queryParams |-> data.queryParams,
      body        |-> IF ep.method # "GET" THEN data.body ELSE Undefined ]

\* handler.applyAuth for the registered handlers: bearerToken sets the
\* Authorization header when a token is configured.
\* An AuthConfig is a record with type and, when given, token, username,
\* password, apiKey, headerName; a field is truthy when it is given and is
\* not the empty text.

\* A handler that sets its header whatever the configuration holds.
HeaderAlways(request, config) ==
    [request EXCEPT !.headers = Put(@, "Authorization", Str("Basic Og=="))]

\* ApiKeyAuthHandler.applyAuth
ApiKeyAuthHandler(request, config) ==
    IF ("apiKey" \in DOMAIN config /\ config.apiKey # "")
    THEN [request EXCEPT !.headers =
             Put(@, IF ("headerName" \in DOMAIN config /\ config.headerName # "") THEN config.headerName ELSE "X-API-Key",
                 Str(config.apiKey))]
    ELSE request

\* BearerTokenAuthHandler.applyAuth
BearerTokenAuthHandler(request, config) ==
    IF ("token" \in DOMAIN config /\ config.token # "")
    THEN [request EXCEPT !.headers = Put(@, "Authorization", Str("Bearer " \o config.token))]
    ELSE request

\* BasicAuthHandler.applyAuth; Buffer.from(text).toString('base64') is given
\* for the credentials of the model.
BasicAuthHandler(request, config) ==
    IF ("username" \in DOMAIN config /\ config.username # "") /\ ("password" \in DOMAIN config /\ config.password # "")
    THEN LET base64 == ("u:p" :> "dTpw") @@ ("g:p" :> "Zzpw")
         IN  [request EXCEPT !.headers =
                 Put(@, "Authorization",
                     Str("Basic " \o base64[config.username \o ":" \o config.password]))]
    ELSE request

\* handler.applyAuth for the handler the registry of the engine holds for the
\* type of the configuration; no handler is registered for other types and
\* the configurations of the model have no customHandler.
applyAuth(request, authConfig) ==
    CASE authConfig.type = "apiKey" -> ApiKeyAuthHandler(request, authConfig)
      [] authConfig.type = "bearerToken" -> BearerTokenAuthHandler(request, authConfig)
      [] authConfig.type = "basic" -> BasicAuthHandler(request, authConfig)
      [] OTHER -> request

\* ------------------------------------------------------------------- state
VARIABLES
    endpoints,   \* the caller's ApiEndpoint objects, by id
    globalAuth,  \* this.globalAuth
    context,     \* this.context: results and variables
    pc,          \* per call: where the call stands
    call,        \* per call: the public method called, its array and options
    flow,        \* per call: sortedEndpoints, loop position and results of executeFlow
    exec,        \* per call: the locals of the running executeEndpoint
    log,         \* per call: the steps taken and the collaborator calls made
    outcome,     \* per call: how the promise returned to the caller settled
    client       \* what the client got and set since the last clearContext, and
                 \* the objects it makes with the library outside the engine

vars == <<endpoints, globalAuth, context, pc, call, flow, exec, log, outcome, client>>

\* The calls made on the engine.
Runs == DOMAIN pc

NoResult == [none |-> TRUE]
NoResponse == [none |-> TRUE]
NoRequest == [none |-> TRUE]
NoData == [none |-> TRUE]

StatusCodes == {200, 404}
ResponseBody == Obj("id" :> Num(7))
Responses == {[status |-> s, headers |-> EmptyMap, data |-> ResponseBody] : s \in StatusCodes}
TransportErrors == {"fetch failed", "The operation was aborted due to timeout"}
AiResponses ==
    { <<Fence, "{", "id:9", "}", Fence>>,
      <<"{", "id:s", "}">>,
      <<"{", "id:9,zz:9", "}">>,
      <<"{", "id:9,zz:long", "}">>,
      <<"{", "zz:9", "}">>,
      <<"{", "x", "}">>,
      <<"[", "9", "]">>,
      <<"x">>,
      <<"null">> }

TimeoutOptions == {0, 5000}
Options ==
    [ retries : 0..MaxRetries, timeout : TimeoutOptions,
      validateResponse : BOOLEAN, continueOnError : BOOLEAN ]
NoOptions == [retries |-> 0, timeout |-> 0, validateResponse |-> FALSE, continueOnError |-> FALSE]

IdleExec ==
    [ endpoint |-> NoId, resolvedData |-> NoData, requestConfig |-> NoRequest,
      slots |-> <<>>, attempt |-> 0, lastError |-> "", response |-> NoResponse,
      result |-> NoResult, error |-> "", ai |-> <<>>,
      entry |-> [results |-> EmptyMap, connections |-> <<>>] ]

Event(step, e, attempt, ms, slot) ==
    [step |-> step, endpoint |-> e, attempt |-> attempt, ms |-> ms, slot |-> slot]
Step(r, name) == Event(name, exec[r].endpoint, 0, 0, "")

Pending == [state |-> "pending", result |-> NoResult, results |-> <<>>, error |-> "", endpoint |-> NoId]

Ep(r) == endpoints[exec[r].endpoint]

\* The locals of executeEndpoint when it is entered for endpoint e, with what
\* the context and the endpoint's connections were at that moment.
Entered(e) ==
    [IdleExec EXCEPT !.endpoint = e,
                     !.entry = [results |-> context.results,
                                connections |-> endpoints[e].connections]]
Logged(r, ev) == log' = [log EXCEPT ![r] = Append(@, ev)]

\* ------------------------------------------------------------ public calls
\* executeFlow(endpoints, options) up to its first await: the dependency sort,
\* then either the rejection or the call of executeEndpoint for the first
\* endpoint of the order.
ExecuteFlow(r, k, options) ==
    /\ pc[r] = "idle"
    /\ LET input == [i \in 1..k |-> i]
           st    == sortEndpointsByDependencies(endpoints, input)
       IN  /\ call' = [call EXCEPT ![r] = [kind |-> "flow", input |-> input, options |-> options]]
           /\ IF st.error # NoId
              THEN /\ pc' = [pc EXCEPT ![r] = "rejected"]
                   /\ outcome' = [outcome EXCEPT ![r] =
                          [Pending EXCEPT !.state = "rejected",
                                          !.error = "Circular dependency detected involving endpoint",
                                          !.endpoint = st.error]]
                   /\ UNCHANGED <<flow, exec, log>>
              ELSE /\ pc' = [pc EXCEPT ![r] = "validate"]
                   /\ flow' = [flow EXCEPT ![r] = [sorted |-> st.sorted, position |-> 1, results |-> <<>>]]
                   /\ exec' = [exec EXCEPT ![r] = Entered(st.sorted[1])]
                   /\ Logged(r, Event("executeEndpoint", st.sorted[1], 0, 0, ""))
                   /\ UNCHANGED outcome
    /\ UNCHANGED <<endpoints, globalAuth, context>>

\* executeEndpoint(endpoint, options) called by the client.
ExecuteEndpoint(r, e, options) ==
    /\ pc[r] = "idle"
    /\ call' = [call EXCEPT ![r] = [kind |-> "endpoint", input |-> <<e>>, options |-> options]]
    /\ pc' = [pc EXCEPT ![r] = "validate"]
    /\ exec' = [exec EXCEPT ![r] = Entered(e)]
    /\ Logged(r, Event("executeEndpoint", e, 0, 0, ""))
    /\ UNCHANGED <<endpoints, globalAuth, context, flow, outcome>>

\* ------------------------------------------------- steps of executeEndpoint
\* A throw inside the try block: control goes to the catch block.
Throw(r, message) ==
    /\ pc' = [pc EXCEPT ![r] = "catch"]
    /\ exec' = [exec EXCEPT ![r].error = message]

\* Validate without the throw: a configuration with errors goes on.
ValidateIgnoringErrors(r) ==
    /\ pc[r] = "validate"
    /\ Logged(r, Step(r, "validate"))
    /\ pc' = [pc EXCEPT ![r] = "validateTypedConnections"]
    /\ UNCHANGED <<endpoints, globalAuth, context, call, flow, exec, outcome>>

\* endpoint.validate()
Validate(r) ==
    /\ pc[r] = "validate"
    /\ Logged(r, Step(r, "validate"))
    /\ IF validate(Ep(r)) # <<>>
       THEN Throw(r, "Endpoint validation failed")
       ELSE pc' = [pc EXCEPT ![r] = "validateTypedConnections"] /\ UNCHANGED exec
    /\ UNCHANGED <<endpoints, globalAuth, context, call, flow, outcome>>

\* this.validateTypedConnections(endpoint)
ValidateTypedConnections(r) ==
    /\ pc[r] = "validateTypedConnections"
    /\ Logged(r, Step(r, "validateTypedConnections"))
    /\ LET v == validateTypedConnections(Ep(r)) IN
       /\ endpoints' = [endpoints EXCEPT ![exec[r].endpoint].connections = v.connections]
       /\ IF v.error # ""
          THEN Throw(r, v.error)
          ELSE pc' = [pc EXCEPT ![r] = "resolveEndpointData"] /\ UNCHANGED exec
    /\ UNCHANGED <<globalAuth, context, call, flow, outcome>>

\* A resolver that sees only the results of its own flow.
ResolveEndpointDataIsolated(r) ==
    /\ pc[r] = "resolveEndpointData"
    /\ Logged(r, Step(r, "resolveEndpointData"))
    /\ exec' = [exec EXCEPT ![r].resolvedData =
                   resolveEndpointData(Ep(r),
                       [id \in {flow[r].sorted[i] : i \in 1..(flow[r].position - 1)} |->
                           flow[r].results[CHOOSE i \in 1..Len(flow[r].sorted) :
                                               flow[r].sorted[i] = id]])]
    /\ pc' = [pc EXCEPT ![r] = "buildRequestConfig"]
    /\ UNCHANGED <<endpoints, globalAuth, context, call, flow, outcome>>

\* await this.resolveEndpointData(endpoint)
ResolveEndpointData(r) ==
    /\ pc[r] = "resolveEndpointData"
    /\ Logged(r, Step(r, "resolveEndpointData"))
    /\ exec' = [exec EXCEPT ![r].resolvedData = resolveEndpointData(Ep(r), context.results)]
    /\ pc' = [pc EXCEPT ![r] = "buildRequestConfig"]
    /\ UNCHANGED <<endpoints, globalAuth, context, call, flow, outcome>>

\* The request is built and returned by buildRequestConfig.
RequestBuilt(r, data) ==
    /\ exec' = [exec EXCEPT ![r].resolvedData = data,
                            ![r].requestConfig = buildRequestConfig(Ep(r), data),
                            ![r].slots = <<>>]
    /\ pc' = [pc EXCEPT ![r] = "auth"]

\* buildRequestConfig without its AI step: the request is built from the
\* connection data alone.
BuildRequestConfigWithoutAi(r) ==
    /\ pc[r] = "buildRequestConfig"
    /\ RequestBuilt(r, exec[r].resolvedData)
    /\ Logged(r, Step(r, "buildRequest"))
    /\ UNCHANGED <<endpoints, globalAuth, context, call, flow, outcome>>

\* buildRequestConfig is entered: without natural-language input, or without
\* any slot, the request is built at once; otherwise the completion call for
\* the first slot is made.
BuildRequestConfig(r) ==
    /\ pc[r] = "buildRequestConfig"
    /\ LET slots == IF Ep(r).naturalLanguageInput = "" THEN <<>> ELSE AiSlots(Ep(r)) IN
       IF slots = <<>>
       THEN /\ RequestBuilt(r, exec[r].resolvedData)
            /\ Logged(r, Step(r, "buildRequest"))
       ELSE /\ exec' = [exec EXCEPT ![r].slots = slots]
            /\ pc' = [pc EXCEPT ![r] = "chat"]
            /\ Logged(r, Event("chat", exec[r].endpoint, 0, 0, slots[1]))
    /\ UNCHANGED <<endpoints, globalAuth, context, call, flow, outcome>>

\* A resolver that asks the model again, once, after a response it rejects.
ChatReturnsRetrying(r, response) ==
    /\ pc[r] = "chat"
    /\ LET slots == exec[r].slots
           res   == resolveSlot(Ep(r), exec[r].resolvedData, slots[1], response)
       IN  IF res.error # "" /\ exec[r].ai = <<>>
           THEN /\ exec' = [exec EXCEPT ![r].ai = Append(@, res)]
                /\ pc' = pc
                /\ Logged(r, Event("chat", exec[r].endpoint, 0, 0, slots[1]))
           ELSE IF res.error # ""
           THEN /\ exec' = [exec EXCEPT ![r].ai = Append(@, res), ![r].error = res.error]
                /\ pc' = [pc EXCEPT ![r] = "catch"]
                /\ UNCHANGED log
           ELSE IF Len(slots) > 1
           THEN /\ exec' = [exec EXCEPT ![r].ai = Append(@, res), ![r].resolvedData = res.after,
                                        ![r].slots = Tail(slots)]
                /\ pc' = pc
                /\ Logged(r, Event("chat", exec[r].endpoint, 0, 0, slots[2]))
           ELSE /\ exec' = [exec EXCEPT ![r].ai = Append(@, res), ![r].resolvedData = res.after,
                                        ![r].requestConfig = buildRequestConfig(Ep(r), res.after),
                                        ![r].slots = <<>>]
                /\ pc' = [pc EXCEPT ![r] = "auth"]
                /\ Logged(r, Step(r, "buildRequest"))
    /\ UNCHANGED <<endpoints, globalAuth, context, call, flow, outcome>>

\* this.aoai.chat returned the text `response`: the resolver of the slot
\* sanitizes, parses and validates it, and throws or merges; after the merge
\* the next slot is asked or the request is built.
ChatReturns(r, response) ==
    /\ pc[r] = "chat"
    /\ LET slots == exec[r].slots
           res   == resolveSlot(Ep(r), exec[r].resolvedData, slots[1], response)
       IN  IF res.error # ""
           THEN /\ exec' = [exec EXCEPT ![r].ai = Append(@, res), ![r].error = res.error]
                /\ pc' = [pc EXCEPT ![r] = "catch"]
                /\ UNCHANGED log
           ELSE IF Len(slots) > 1
           THEN /\ exec' = [exec EXCEPT ![r].ai = Append(@, res), ![r].resolvedData = res.after,
                                        ![r].slots = Tail(slots)]
                /\ pc' = pc
                /\ Logged(r, Event("chat", exec[r].endpoint, 0, 0, slots[2]))
           ELSE /\ exec' = [exec EXCEPT ![r].ai = Append(@, res), ![r].resolvedData = res.after,
                                        ![r].requestConfig = buildRequestConfig(Ep(r), res.after),
                                        ![r].slots = <<>>]
                /\ pc' = [pc EXCEPT ![r] = "auth"]
                /\ Logged(r, Step(r, "buildRequest"))
    /\ UNCHANGED <<endpoints, globalAuth, context, call, flow, outcome>>

\* The completion request itself failed: the promise of AOAI.chat is never
\* settled, the call stays where it is.
ChatNeverSettles(r) ==
    /\ pc[r] = "chat"
    /\ pc' = [pc EXCEPT ![r] = "hung"]
    /\ UNCHANGED <<endpoints, globalAuth, context, call, flow, exec, outcome, log>>

\* const authConfig = endpoint.auth || this.globalAuth
\* The global configuration first.
authConfigGlobalFirst(ep, global) == IF global # NoAuth THEN global ELSE ep.auth

authConfigOf(ep, global) == IF ep.auth # NoAuth THEN ep.auth ELSE global

\* The authentication step of executeEndpoint.
Authenticate(r) ==
    /\ pc[r] = "auth"
    /\ Logged(r, Step(r, "auth"))
    /\ LET authConfig == authConfigOf(Ep(r), globalAuth) IN
       exec' = [exec EXCEPT ![r].requestConfig =
                   IF authConfig # NoAuth /\ authConfig.type # "none"
                   THEN applyAuth(@, authConfig) ELSE @,
                ![r].attempt = 0]
    /\ pc' = [pc EXCEPT ![r] = "executeHttpRequest"]
    /\ UNCHANGED <<endpoints, globalAuth, context, call, flow, outcome>>

\* A retry loop that runs one attempt too many.
maxRetriesOneMore(ep, options) == options.retries + 1

\* executeHttpRequest: const maxRetries = options.retries || 0
maxRetries(ep, options) == options.retries

\* executeHttpRequest and performHttpRequest: the time after which the abort
\* signal of an attempt fires (0 stands for an option that is not given).
attemptTimeout(ep, options) == IF options.timeout # 0 THEN options.timeout ELSE DefaultTimeoutMs

RECURSIVE Pow(_, _)
Pow(b, n) == IF n = 0 THEN 1 ELSE b * Pow(b, n - 1)

\* Math.pow(2, attempt) * 1000
backoffMs(attempt) == Pow(BackoffBase, attempt) * BackoffUnitMs

\* performHttpRequest: fetch is called for the current attempt.
SendRequest(r) ==
    /\ pc[r] = "executeHttpRequest"
    /\ Logged(r, Event("http", exec[r].endpoint, exec[r].attempt,
                       attemptTimeout(Ep(r), call[r].options), ""))
    /\ pc' = [pc EXCEPT ![r] = "fetch"]
    /\ UNCHANGED <<endpoints, globalAuth, context, call, flow, exec, outcome>>

\* fetch returned a response (whatever its status): the retry loop resolves.
HttpResponds(r, response) ==
    /\ pc[r] = "fetch"
    /\ exec' = [exec EXCEPT ![r].response = response]
    /\ pc' = [pc EXCEPT ![r] = "record"]
    /\ UNCHANGED <<endpoints, globalAuth, context, call, flow, outcome, log>>

\* The attempt failed (network error, or the abort signal fired): the last
\* attempt rejects with the error, an earlier one sleeps before the next.
HttpFails(r, error) ==
    /\ pc[r] = "fetch"
    /\ IF exec[r].attempt = maxRetries(Ep(r), call[r].options)
       THEN /\ pc' = [pc EXCEPT ![r] = "catch"]
            /\ exec' = [exec EXCEPT ![r].lastError = error, ![r].error = error]
            /\ UNCHANGED log
       ELSE /\ pc' = [pc EXCEPT ![r] = "sleep"]
            /\ exec' = [exec EXCEPT ![r].lastError = error]
            /\ Logged(r, Event("sleep", exec[r].endpoint, exec[r].attempt,
                               backoffMs(exec[r].attempt), ""))
    /\ UNCHANGED <<endpoints, globalAuth, context, call, flow, outcome>>

\* The backoff timer fired: the loop goes to the next attempt.
BackoffElapsed(r) ==
    /\ pc[r] = "sleep"
    /\ exec' = [exec EXCEPT ![r].attempt = @ + 1]
    /\ pc' = [pc EXCEPT ![r] = "executeHttpRequest"]
    /\ UNCHANGED <<endpoints, globalAuth, context, call, flow, outcome, log>>

\* A store that keeps the first result of an endpoint id.
SetResultOnce(r, result) ==
    /\ exec' = [exec EXCEPT ![r].result = result]
    /\ context' = [context EXCEPT !.results =
                      IF Has(@, exec[r].endpoint) THEN @ ELSE Put(@, exec[r].endpoint, result)]

SetResult(r, result) ==
    /\ exec' = [exec EXCEPT ![r].result = result]
    /\ context' = [context EXCEPT !.results = Put(@, exec[r].endpoint, result)]

\* The result is created and stored: this.context.results.set(endpoint.id, result)
RecordResult(r) ==
    /\ pc[r] = "record"
    /\ Logged(r, Step(r, "record"))
    /\ SetResult(r, SuccessResult(Ep(r), exec[r].requestConfig, exec[r].resolvedData,
                                  exec[r].response))
    /\ pc' = [pc EXCEPT ![r] = IF call[r].options.validateResponse
                               THEN "validateResponse" ELSE "return"]
    /\ UNCHANGED <<endpoints, globalAuth, call, flow, outcome>>

\* validateResponse
\* A validateResponse that takes every status code.
validateResponseLenient(ep, result) == TRUE

validateResponse(ep, result) == result.statusCode \in ep.expectedResponse

\* if (options.validateResponse) this.validateResponse(endpoint, result)
ValidateResponse(r) ==
    /\ pc[r] = "validateResponse"
    /\ Logged(r, Step(r, "validateResponse"))
    /\ IF validateResponse(Ep(r), exec[r].result)
       THEN pc' = [pc EXCEPT ![r] = "return"] /\ UNCHANGED exec
       ELSE Throw(r, "Unexpected status code")
    /\ UNCHANGED <<endpoints, globalAuth, context, call, flow, outcome>>

\* The try block without its catch: the error leaves executeEndpoint.
CatchRethrows(r) ==
    /\ pc[r] = "catch"
    /\ Logged(r, Step(r, "catch"))
    /\ pc' = [pc EXCEPT ![r] = "rejected"]
    /\ outcome' = [outcome EXCEPT ![r] = [@ EXCEPT !.state = "rejected", !.error = exec[r].error]]
    /\ UNCHANGED <<endpoints, globalAuth, context, call, flow, exec>>

\* The catch block of executeEndpoint.
Catch(r) ==
    /\ pc[r] = "catch"
    /\ Logged(r, Step(r, "catch"))
    /\ SetResult(r, FailureResult(Ep(r), exec[r].error))
    /\ pc' = [pc EXCEPT ![r] = "return"]
    /\ UNCHANGED <<endpoints, globalAuth, call, flow, outcome>>

\* executeEndpoint returns its result to the client that called it.
ReturnToCaller(r) ==
    /\ pc[r] = "return"
    /\ call[r].kind = "endpoint"
    /\ outcome' = [outcome EXCEPT ![r] = [Pending EXCEPT !.state = "resolved",
                                                         !.result = exec[r].result]]
    /\ pc' = [pc EXCEPT ![r] = "done"]
    /\ UNCHANGED <<endpoints, globalAuth, context, call, flow, exec, log>>

\* The loop of executeFlow without its await: the next endpoint is started
\* while the request of the previous one is still in flight.
FlowContinuesUnawaited(r) ==
    /\ pc[r] \in {"fetch", "return"}
    /\ call[r].kind = "flow"
    /\ IF flow[r].position = Len(flow[r].sorted)
       THEN /\ pc[r] = "return"
            /\ flow' = [flow EXCEPT ![r].results = Append(@, exec[r].result)]
            /\ outcome' = [outcome EXCEPT ![r] = [Pending EXCEPT !.state = "resolved",
                                                  !.results = Append(flow[r].results, exec[r].result)]]
            /\ pc' = [pc EXCEPT ![r] = "done"]
            /\ UNCHANGED <<exec, log>>
       ELSE /\ flow' = [flow EXCEPT ![r].results = Append(@, exec[r].result), ![r].position = @ + 1]
            /\ exec' = [exec EXCEPT ![r] = Entered(flow[r].sorted[flow[r].position + 1])]
            /\ pc' = [pc EXCEPT ![r] = "validate"]
            /\ Logged(r, Event("executeEndpoint", flow[r].sorted[flow[r].position + 1], 0, 0, ""))
            /\ UNCHANGED outcome
    /\ UNCHANGED <<endpoints, globalAuth, context, call>>

\* (mutant) the loop never breaks
breaksNever(result, options) == FALSE

\* executeFlow: if (!result.success && !options.continueOnError) break
breaks(result, options) == ~result.success /\ ~options.continueOnError

\* executeEndpoint returns into the loop of executeFlow: the result is pushed,
\* and the loop breaks, goes on with the next endpoint, or ends.
FlowContinues(r) ==
    /\ pc[r] = "return"
    /\ call[r].kind = "flow"
    /\ LET results == Append(flow[r].results, exec[r].result)
           stop    == breaks(exec[r].result, call[r].options)
       IN  IF stop \/ flow[r].position = Len(flow[r].sorted)
           THEN /\ flow' = [flow EXCEPT ![r].results = results]
                /\ outcome' = [outcome EXCEPT ![r] = [Pending EXCEPT !.state = "resolved",
                                                                     !.results = results]]
                /\ pc' = [pc EXCEPT ![r] = "done"]
                /\ UNCHANGED <<exec, log>>
           ELSE /\ flow' = [flow EXCEPT ![r].results = results, ![r].position = @ + 1]
                /\ exec' = [exec EXCEPT ![r] =
                       Entered(flow[r].sorted[flow[r].position + 1])]
                /\ pc' = [pc EXCEPT ![r] = "validate"]
                /\ Logged(r, Event("executeEndpoint", flow[r].sorted[flow[r].position + 1], 0, 0, ""))
                /\ UNCHANGED outcome
    /\ UNCHANGED <<endpoints, globalAuth, context, call>>

\* clearContext()
ClearContext ==
    /\ \A r \in Runs : pc[r] = "idle"
    /\ context' = [results |-> EmptyMap, variables |-> EmptyMap]
    /\ client' = [returned |-> EmptyMap, variables |-> EmptyMap]
    /\ UNCHANGED <<endpoints, globalAuth, pc, call, flow, exec, log, outcome>>

\* getContext().variables.set(name, value): the maps of the copy that
\* getContext returns are the maps of the engine.
SetVariable(name, value) ==
    /\ \A r \in Runs : pc[r] = "idle"
    /\ context' = [context EXCEPT !.variables = Put(@, name, value)]
    /\ client' = [client EXCEPT !.variables = Put(@, name, value)]
    /\ UNCHANGED <<endpoints, globalAuth, pc, call, flow, exec, log, outcome>>

\* The promise of call r settled and the client goes on to its next call.
NextCall(r) ==
    /\ pc[r] \in {"done", "rejected"}
    /\ pc' = [pc EXCEPT ![r] = "idle"]
    /\ call' = [call EXCEPT ![r] = [kind |-> "none", input |-> <<>>, options |-> NoOptions]]
    /\ flow' = [flow EXCEPT ![r] = [sorted |-> <<>>, position |-> 0, results |-> <<>>]]
    /\ exec' = [exec EXCEPT ![r] = IdleExec]
    /\ log' = [log EXCEPT ![r] = <<>>]
    /\ outcome' = [outcome EXCEPT ![r] = Pending]
    /\ UNCHANGED <<endpoints, globalAuth, context, client>>

\* The client's record of the results it was given: a step in which an
\* execution of executeEndpoint reaches its return adds the returned result.
Returns(r) == pc[r] # "return" /\ pc'[r] = "return"

Received ==
    client' = IF \E r \in Runs : Returns(r)
              THEN LET r == CHOOSE q \in Runs : Returns(q)
                   IN  [client EXCEPT !.returned = Put(@, exec'[r].endpoint, exec'[r].result)]
              ELSE client

\* ------------------------------------------------------------------ inputs
\* The connections the caller added, in the order of the addConnection calls:
\* each one is <<target, source>>.
ConnectionLists == UNION {[1..n -> Ids \X Ids] : n \in 0..MaxConnections}

RECURSIVE ConnectionsOf(_, _)
ConnectionsOf(added, target) ==
    IF added = <<>> THEN <<>>
    ELSE (IF Head(added)[1] = target
          THEN <<UntypedConnection(Head(added)[2], target)>> ELSE <<>>)
         \o ConnectionsOf(Tail(added), target)

\* Plain endpoints wired by a list of added connections.
Wired(added) == [i \in Ids |-> [PlainEndpoint(i) EXCEPT !.connections = ConnectionsOf(added, i)]]

FlowEndpoints == {Wired(added) : added \in ConnectionLists}

\* Endpoint 2 configured in one of several ways and fed by endpoint 1; the
\* other endpoints are plain.
Param(type, required, defaultValue) ==
    [type |-> type, required |-> required, defaultValue |-> defaultValue]

Bearer == [type |-> "bearerToken", token |-> "t0"]

Fed == [PlainEndpoint(2) EXCEPT !.connections = <<UntypedConnection(1, 2)>>]

Variants ==
    { Fed,
      [Fed EXCEPT !.baseUrl = ""],
      [Fed EXCEPT !.queryParams = "q" :> Param("number", TRUE, Num(0))],
      [Fed EXCEPT !.queryParams = "id" :> Param("number", FALSE, Num(1))],
      [Fed EXCEPT !.expectedResponse = {200}],
      [Fed EXCEPT !.retries = MaxRetries, !.timeout = 10000],
      [Fed EXCEPT !.auth = Bearer],
      [Fed EXCEPT !.naturalLanguageInput = "find it",
                  !.pathParams = "id" :> Param("number", TRUE, Undefined)],
      [Fed EXCEPT !.naturalLanguageInput = "find it", !.method = "POST", !.hasBody = TRUE,
                  !.queryParams = "id" :> Param("number", FALSE, Num(1))],
      [Fed EXCEPT !.naturalLanguageInput = "find it", !.method = "POST", !.hasBody = TRUE,
                  !.hasBodySchema = TRUE,
                  !.bodySchema = "id" :> Param("number", TRUE, Undefined),
                  !.pathParams = "id" :> Param("number", TRUE, Num(1)),
                  !.queryParams = "id" :> Param("number", FALSE, Num(1))],
      [Fed EXCEPT !.connections = <<Connection(1, 2, "number", "number", "")>>],
      [Fed EXCEPT !.connections = <<Connection(1, 2, "number", "boolean", "")>>],
      [Fed EXCEPT !.connections = <<Connection(1, 2, "string", "string", "number")>>],
      [Fed EXCEPT !.connections = <<Connection(1, 2, "number", "string", ""),
                                    Connection(1, 2, "array", "number", "array-first")>>] }

ConfiguredEndpoints ==
    {[i \in Ids |-> IF i = 2 THEN v ELSE PlainEndpoint(i)] : v \in Variants}

FlowOptions ==
    [ retries : {0}, timeout : {0}, validateResponse : BOOLEAN, continueOnError : BOOLEAN ]

\* ----------------------------------------------------------- specifications
\* A new engine on which the calls of `runs` will be made.
InitRuns(runs, inputs, auths) ==
    /\ endpoints \in inputs
    /\ globalAuth \in auths
    /\ context = [results |-> EmptyMap, variables |-> EmptyMap]
    /\ pc = [r \in runs |-> "idle"]
    /\ call = [r \in runs |-> [kind |-> "none", input |-> <<>>, options |-> NoOptions]]
    /\ flow = [r \in runs |-> [sorted |-> <<>>, position |-> 0, results |-> <<>>]]
    /\ exec = [r \in runs |-> IdleExec]
    /\ log = [r \in runs |-> <<>>]
    /\ outcome = [r \in runs |-> Pending]
    /\ client = [returned |-> EmptyMap, variables |-> EmptyMap]

InitWith(inputs, auths) == InitRuns({1}, inputs, auths)

\* The steps of a running executeEndpoint that need no input.
EndpointStep(r) ==
    \/ Validate(r)
    \/ ValidateTypedConnections(r)
    \/ ResolveEndpointData(r)
    \/ BuildRequestConfig(r)
    \/ Authenticate(r)
    \/ SendRequest(r)
    \/ RecordResult(r)
    \/ ValidateResponse(r)
    \/ Catch(r)

\* One engine, single endpoints and short flows over configured endpoints.
Init == InitWith(ConfiguredEndpoints, {NoAuth})

Next ==
    \E r \in Runs :
        \/ \E e \in Ids, o \in Options : ExecuteEndpoint(r, e, o)
        \/ \E o \in Options : ExecuteFlow(r, 2, o)
        \/ EndpointStep(r)
        \/ \E response \in AiResponses : ChatReturns(r, response)
        \/ ChatNeverSettles(r)
        \/ \E response \in Responses : HttpResponds(r, response)
        \/ \E error \in TransportErrors : HttpFails(r, error)
        \/ BackoffElapsed(r)
        \/ ReturnToCaller(r)
        \/ FlowContinues(r)

Spec == Init /\ [][Next /\ Received]_vars

\* One engine, one flow over plain endpoints wired in every way.
InitFlow == InitWith(FlowEndpoints, {NoAuth})

NextFlow ==
    \E r \in Runs :
        \/ \E k \in 1..MaxEndpoints, o \in FlowOptions : ExecuteFlow(r, k, o)
        \/ EndpointStep(r)
        \/ \E response \in Responses : HttpResponds(r, response)
        \/ HttpFails(r, "fetch failed")
        \/ FlowContinues(r)

SpecFlow == InitFlow /\ [][NextFlow /\ Received]_vars

\* One engine with a global authentication, one flow over plain endpoints that
\* all have the same authentication of their own.
InitAuth ==
    InitWith({[i \in Ids |-> [PlainEndpoint(i) EXCEPT !.auth = auth]] :
                 auth \in {NoAuth, Bearer, [type |-> "none"], [type |-> "bearerToken"],
                           [type |-> "apiKey", apiKey |-> "k0", headerName |-> "X-Key"],
                           [type |-> "basic", username |-> "u", password |-> "p"]}},
             {NoAuth, [type |-> "none"], [type |-> "bearerToken", token |-> "g0"],
              [type |-> "apiKey", apiKey |-> "g1"],
              [type |-> "basic", username |-> "g", password |-> "p"]})

SpecAuth == InitAuth /\ [][NextFlow /\ Received]_vars

\* Two calls in flight on one engine. JavaScript runs a call without
\* interruption up to its next await: while a call stands inside such a
\* stretch (between the entry of executeEndpoint and the await of
\* resolveEndpointData, and between the storing of a result and the return)
\* no other call takes a step.
SyncPcs == {"validate", "validateTypedConnections", "resolveEndpointData",
            "validateResponse", "catch"}

Scheduled(r) == \A q \in Runs \ {r} : pc[q] \notin SyncPcs

ConcurrentOptions ==
    [ retries : {0}, timeout : {0}, validateResponse : {FALSE}, continueOnError : BOOLEAN ]

InitConcurrent ==
    InitRuns({1, 2}, {[i \in Ids |-> IF i = 2 THEN Fed ELSE PlainEndpoint(i)]}, {NoAuth})

NextConcurrent ==
    \E r \in Runs :
        /\ Scheduled(r)
        /\ \/ \E e \in {1, 2}, o \in ConcurrentOptions : ExecuteEndpoint(r, e, o)
           \/ \E o \in ConcurrentOptions : ExecuteFlow(r, 2, o)
           \/ EndpointStep(r)
           \/ \E response \in Responses : HttpResponds(r, response)
           \/ HttpFails(r, "fetch failed")
           \/ ReturnToCaller(r)
           \/ FlowContinues(r)

SpecConcurrent == InitConcurrent /\ [][NextConcurrent /\ Received]_vars

\* One client that makes its calls one after the other: single endpoints,
\* flows, clearContext, and a variable set through getContext.
SessionVariants ==
    {Fed, [Fed EXCEPT !.baseUrl = ""], [Fed EXCEPT !.expectedResponse = {200}]}

SessionOptions ==
    [ retries : {0}, timeout : {0}, validateResponse : BOOLEAN, continueOnError : BOOLEAN ]

InitSession ==
    InitWith({[i \in Ids |-> IF i = 2 THEN v ELSE PlainEndpoint(i)] : v \in SessionVariants},
             {NoAuth})

NextSession ==
    \/ /\ \E r \in Runs :
             \/ \E e \in {1, 2}, o \in SessionOptions : ExecuteEndpoint(r, e, o)
             \/ \E o \in SessionOptions : ExecuteFlow(r, 2, o)
             \/ EndpointStep(r)
             \/ \E response \in Responses : HttpResponds(r, response)
             \/ HttpFails(r, "fetch failed")
             \/ ReturnToCaller(r)
             \/ FlowContinues(r)
       /\ Received
    \/ \E r \in Runs : NextCall(r)
    \/ ClearContext
    \/ SetVariable("v", Num(1))

SpecSession == InitSession /\ [][NextSession]_vars

\* One engine, a flow over the source endpoint 1 and a target endpoint 2 whose
\* connections feed its path, query, body and headers; endpoint 3 is never
\* executed. The source answers with a list of products, with an empty object,
\* or not at all.
Wire(src, sourceField, location, targetField, transform) ==
    [Connection(src, 2, "", "", transform) EXCEPT !.sourceField = sourceField,
                                                !.targetLocation = location,
                                                !.targetField = targetField]
Product == [PlainEndpoint(2) EXCEPT !.path = <<"/products/", "{id}">>,
                                    !.pathParams = "id" :> Param("number", TRUE, Num(1))]
FirstId == [Connection(1, 2, "number", "number", "") EXCEPT !.sourceField = <<"0", "id">>,
                                                            !.targetLocation = "path"]
ResolveVariants ==
    { [Product EXCEPT !.connections = <<FirstId>>],
      [Product EXCEPT !.connections = <<FirstId>>, !.naturalLanguageInput = "the first product"],
      [Product EXCEPT !.connections = <<Wire(1, <<"0", "name">>, "path", "id", "")>>],
      [Product EXCEPT !.connections = <<Wire(1, <<"0">>, "path", "id", "")>>,
                      !.pathParams = "id" :> Param("number", TRUE, Undefined)],
      [Product EXCEPT !.connections = <<Wire(1, <<"0", "id">>, "path", "id", "string"),
                                        Wire(3, <<"id">>, "query", "q", "")>>],
      [PlainEndpoint(2) EXCEPT
          !.queryParams = ("id" :> Param("number", FALSE, Num(1)))
                          @@ ("q" :> Param("number", FALSE, Num(1)))
                          @@ ("name" :> Param("string", FALSE, Str("a"))),
          !.resolvedParams = ("id" :> Num(5)) @@ ("q" :> Num(5)),
          !.connections = <<Wire(1, <<"0", "id">>, "query", "id", "")>>],
      [PlainEndpoint(2) EXCEPT
          !.method = "POST", !.hasBody = TRUE,
          !.bodyContent = ("id" :> Num(1)) @@ ("q" :> Num(1)) @@ ("name" :> Str("a")),
          !.resolvedBody = ("id" :> Num(5)) @@ ("q" :> Num(5)),
          !.connections = <<Wire(1, <<"0", "id">>, "body", "id", "")>>],
      [PlainEndpoint(2) EXCEPT
          !.headers = ("X-Id" :> Str("a")) @@ ("name" :> Str("a")),
          !.connections = <<Wire(1, <<"0", "id">>, "header", "X-Id", "")>>] }

ProductList == Arr(<<Obj(("id" :> Num(7)) @@ ("name" :> Str("a b")))>>)
ResolveResponses ==
    {[status |-> 200, headers |-> EmptyMap, data |-> body] : body \in {ProductList, Obj(EmptyMap)}}
ResolveOptions ==
    { NoOptions, [NoOptions EXCEPT !.continueOnError = TRUE],
      [NoOptions EXCEPT !.validateResponse = TRUE] }

InitResolve ==
    InitWith({[i \in Ids |-> IF i = 2 THEN v ELSE PlainEndpoint(i)] : v \in ResolveVariants},
             {NoAuth})

NextResolve ==
    \E r \in Runs :
        \/ \E o \in ResolveOptions : ExecuteFlow(r, 2, o)
        \/ ExecuteEndpoint(r, 2, NoOptions)
        \/ EndpointStep(r)
        \/ \E response \in AiResponses : ChatReturns(r, response)
        \/ \E response \in ResolveResponses : HttpResponds(r, response)
        \/ HttpFails(r, "fetch failed")
        \/ ReturnToCaller(r)
        \/ FlowContinues(r)

SpecResolve == InitResolve /\ [][NextResolve /\ Received]_vars

\* A client that uses the library outside the engine: it compares parameter
\* types as the connection builder and as the engine do, and connects a
\* transformed source property to a target property: the builder's constructor
\* runs for it, and the engine's typed validation for a connection with these
\* types and this transform. client.last is the
\* last call it made, with its arguments and what it got.
Calls(op, args, result) ==
    /\ client' = [last |-> [op |-> op, args |-> args, result |-> result]] @@ client
    /\ UNCHANGED <<endpoints, globalAuth, context, pc, call, flow, exec, log, outcome>>

InitClient == InitWith({[i \in Ids |-> PlainEndpoint(i)]}, {NoAuth})

NextClient ==
    \/ \E s, t \in ParameterTypes :
          Calls("areTypesCompatible", <<s, t>>,
                [builder |-> areTypesCompatible(s, t), engine |-> areTypesCompatibleEnhanced(s, t)])
    \/ \E s, t \in ParameterTypes, location \in {"query", "path"},
          name \in DOMAIN validTransformations \cup {"basic-auth", "json-stringify", "url-encode"} :
          Calls("mapTo", <<s, t, name, location>>,
                [builder |-> validateCompatibility(s, t, location),
                 engine  |-> validateTypedConnectionsFrom(
                                 <<[Connection(1, 2, s, t, name) EXCEPT !.targetLocation = location]>>,
                                 1).error])
    \/ LET Plain == {Param(type, required, Undefined) :
                         type \in ParameterTypes, required \in BOOLEAN}
           Validations == {[min |-> MinBound, max |-> MaxBound], [min |-> MinBound],
                           [max |-> MaxBound], [pattern |-> "^a$"],
                           [enum |-> <<Str("a"), Num(MinBound)>>]}
           Nested == {[properties |-> [id |-> Param("number", TRUE, Undefined)]]
                          @@ Param("object", required, Undefined) : required \in BOOLEAN}
                     \cup {[items |-> Param("string", TRUE, Undefined)]
                              @@ Param("array", required, Undefined) : required \in BOOLEAN}
           Values == {Null, Undefined, NaN, Str(""), Str("a"), Str("7"), Bool(TRUE),
                      Arr(<<>>), Arr(<<Str("a"), Str("")>>),
                      Obj([id |-> Num(MinBound)]), Obj([name |-> Str("a")])}
                     \cup {Num(n) : n \in (MinBound - 1)..(MaxBound + 1)}
       IN  \E definition \in Plain \cup Nested
                                \cup {[validation |-> v] @@ d : v \in Validations, d \in Plain},
              value \in Values :
              Calls("validateParameter", <<value, definition>>,
                    validateParameterErrors(value, definition))
    \/ \E request \in {[body |-> Undefined, headers |-> headers, method |-> "GET",
                           queryParams |-> EmptyMap, url |-> "https://api.test/items"] :
                             headers \in {EmptyMap, "Authorization" :> Str("Bearer old")}},
          config \in [type : {"apiKey"}] \cup [apiKey : {"", "k0"}, type : {"apiKey"}]
                     \cup [apiKey : {"", "k0"}, headerName : {"", "X-Key"}, type : {"apiKey"}]
                     \cup [type : {"bearerToken"}] \cup [token : {"", "t0"}, type : {"bearerToken"}]
                     \cup [type : {"basic"}] \cup [type : {"basic"}, username : {"", "u"}]
                     \cup [password : {"", "p"}, type : {"basic"}]
                     \cup [password : {"", "p"}, type : {"basic"}, username : {"", "u"}] :
          Calls("applyAuth", <<request, config>>, applyAuth(request, config))
    \/ \E body \in {Null, Str("a"), Num(0),
                     Obj([data  |-> Obj([user |-> Obj([id |-> Num(7)])]),
                          items |-> Arr(<<Obj([id |-> Num(1)])>>)])},
          path \in {<<"">>, <<"", "">>, <<"data">>, <<"data", "user", "id">>,
                    <<"data", "user", "missing">>, <<"data", "missing", "id">>,
                    <<"data", "user", "id", "x">>, <<"items", "0", "id">>, <<"items", "1">>,
                    <<"items", "length">>, <<"data", "constructor">>, <<"toString">>} :
          Calls("extractValueFromResult", <<body, path>>,
                extractValueFromResult([responseData |-> [body |-> body]], path))

SpecClient == InitClient /\ [][NextClient]_vars

\* The caller builds parameter definitions and connections. client.builder
\* is a ParameterBuilder's this.definition, whose validation field holds the
\* address of the validation object in client.heap; client.built lists the
\* objects build() returned, each with the value it had when it was returned.
\* client.created lists the connections created, client.now is Date.now().
Builds(fields) ==
    /\ client' = fields @@ client
    /\ UNCHANGED <<endpoints, globalAuth, context, pc, call, flow, exec, log, outcome>>

\* The value of a definition whose validation field is an address
Deref(definition, heap) ==
    IF "validation" \in DOMAIN definition
    THEN [definition EXCEPT !.validation = heap[@]]
    ELSE definition

\* new ParameterBuilder(name, type)
NewParameterBuilder(type) ==
    /\ "builder" \notin DOMAIN client
    /\ Builds([builder |-> [type |-> type, required |-> FALSE], heap |-> EmptyMap,
               built |-> <<>>])

\* required(), defaultValue(), items(), properties(): this.definition[field] =
\* value; items() and properties() throw for another type than theirs.
BuilderSets(field, value) ==
    /\ "builder" \in DOMAIN client
    /\ field = "items" => client.builder.type = "array"
    /\ field = "properties" => client.builder.type = "object"
    /\ Builds([builder |-> Put(client.builder, field, value)])

\* min(), max(), pattern(), enum(): this.definition.validation is created
\* when it is missing, then this.definition.validation[field] = value.
BuilderSetsValidation(field, value) ==
    /\ "builder" \in DOMAIN client
    /\ LET address == 1
           validation == IF "validation" \in DOMAIN client.builder
                         THEN client.heap[client.builder.validation] ELSE EmptyMap
       IN  Builds([builder |-> Put(client.builder, "validation", address),
                   heap |-> Put(client.heap, address, Put(validation, field, value))])

\* build(): { ...this.definition }, a new object with the fields of
\* this.definition, the address of the validation object among them.
Build ==
    /\ "builder" \in DOMAIN client
    /\ Len(client.built) < MaxBuilds
    /\ Builds([built |-> Append(client.built,
                                 [definition |-> client.builder,
                                  value |-> Deref(client.builder, client.heap)])])

\* generateConnectionId, and the same template in addConnection: the ids of
\* two endpoints and Date.now(), joined by "_"
generateConnectionId(first, second, now) == <<first, "_", second, "_", now>>

\* endpoint.addConnection(connection): the id is made of this.id, the
\* connection's targetNodeId and Date.now().
AddConnection(endpoint, connection) ==
    /\ "created" \in DOMAIN client
    /\ Len(client.created) < MaxConnections
    /\ Builds([created |-> Append(client.created,
                   [via |-> "addConnection", holder |-> endpoint, position |-> Len(client.created) + 1,
                    id |-> generateConnectionId(endpoint, connection.targetNodeId, client.now)])])

\* endpoint.addTypedConnection(source, target), and addConnections for each
\* of its builders: ConnectionBuilder.build() makes the id of the endpoints
\* of the two properties and Date.now().
AddTypedConnection(endpoint, source, target) ==
    /\ "created" \in DOMAIN client
    /\ Len(client.created) < MaxConnections
    /\ Builds([created |-> Append(client.created,
                   [via |-> "addTypedConnection", holder |-> endpoint, position |-> Len(client.created) + 1,
                    id |-> generateConnectionId(source, target, client.now)])])

NextBuilder ==
    \/ "created" \notin DOMAIN client /\ Builds([created |-> <<>>, now |-> 0])
    \/ "now" \in DOMAIN client /\ client.now < MaxClock /\ Builds([now |-> client.now + 1])
    \/ AddConnection(2, UntypedConnection(1, 2))
    \/ AddTypedConnection(2, 1, 2)
    \/ \E type \in {"number", "array"} : NewParameterBuilder(type)
    \/ \E required \in BOOLEAN : BuilderSets("required", required)
    \/ BuilderSets("defaultValue", Num(MinBound))
    \/ BuilderSets("items", Param("string", TRUE, Undefined))
    \/ BuilderSetsValidation("min", MinBound)
    \/ BuilderSetsValidation("max", MaxBound)
    \/ BuilderSetsValidation("enum", <<Num(MinBound)>>)
    \/ Build

SpecBuilder == InitClient /\ [][NextBuilder]_vars

\* One engine and one call, of executeEndpoint or of executeFlow over two
\* endpoints, on endpoints that are plain, feed each other in a cycle, have an
\* invalid definition or ask the model for a path parameter.
LiveEndpoints ==
    {Wired(added) : added \in {<<>>, <<<<2, 1>>>>, <<<<1, 2>>, <<2, 1>>>>}}
    \cup {[i \in Ids |-> IF i = 2 THEN v ELSE PlainEndpoint(i)] :
             v \in {[Fed EXCEPT !.baseUrl = ""],
                    [Fed EXCEPT !.naturalLanguageInput = "find it",
                                !.pathParams = "id" :> Param("number", TRUE, Undefined)]}}

LiveOptions ==
    [ retries : 0..MaxRetries, timeout : {0},
      validateResponse : BOOLEAN, continueOnError : BOOLEAN ]

InitLive == InitWith(LiveEndpoints, {NoAuth})

\* What the engine, its collaborators and the timers do once a call is made:
\* every step but the calls of the client.
Continues ==
    \E r \in Runs :
        \/ EndpointStep(r)
        \/ \E response \in AiResponses : ChatReturns(r, response)
        \/ ChatNeverSettles(r)
        \/ \E response \in Responses : HttpResponds(r, response)
        \/ \E error \in TransportErrors : HttpFails(r, error)
        \/ BackoffElapsed(r)
        \/ ReturnToCaller(r)
        \/ FlowContinues(r)

NextLive ==
    \/ \E r \in Runs, e \in Ids, o \in LiveOptions : ExecuteEndpoint(r, e, o)
    \/ \E r \in Runs, o \in LiveOptions : ExecuteFlow(r, 2, o)
    \/ Continues

\* The event loop runs every continuation that is ready, a timer that was set
\* fires, and a request that was sent gets an answer or an error. Nothing
\* makes the client call.
Fairness == WF_vars(Continues /\ Received)

SpecLive == InitLive /\ [][NextLive /\ Received]_vars /\ Fairness

\* ------------------------------------------------------ callAiWithContext
\* The helper is followed in client.helper: its arguments, the attempt of its
\* loop, where it is (chat, sleep, returned, threw, hung), the texts the
\* completion calls returned, the waits it made and what it returned.

\* response.trim().replace(/```json\n?/g, '').replace(/```\n?/g, '')
\*         .replace(/^[^{]*({.*})[^}]*$/s, '$1')
cleanResponse(response) ==
    LET cleaned == SelectSeq(response, LAMBDA piece : piece # Fence) IN
    IF objectMatch(cleaned) # <<>> THEN objectMatch(cleaned) ELSE cleaned

\* validateAiResponse: Object.values of an array are its elements.
validateAiResponse(response, contextType) ==
    IF Falsy(response) \/ response.t \notin {"object", "array"} THEN FALSE
    ELSE CASE contextType \in {"path", "query"} ->
                 \A k \in DOMAIN response.v : response.v[k].t \in {"string", "number", "boolean"}
           [] contextType = "body" -> TRUE
           [] OTHER -> FALSE

ContextTypes == {"path", "query", "body"}

\* The texts a completion call returns to the helper.
HelperResponses ==
    { <<"{", "id:9", "}">>,
      <<Fence, "{", "id:s", "}", Fence>>,
      <<"x", "{", "id:9", "}", "x">>,
      <<"{", "id:null", "}">>,
      <<"{", "}">>,
      <<"[", "9", "]">>,
      <<"[", "]">>,
      <<"9">>,
      <<"null">>,
      <<"x">> }

\* callAiWithContext(prompt, contextType, retries) up to its first await
CallAiWithContext(contextType, retries) ==
    /\ "helper" \notin DOMAIN client
    /\ Builds([helper |-> [contextType |-> contextType, retries |-> retries, attempt |-> 0,
                           at |-> "chat",
                           texts |-> <<>>, waits |-> <<>>, result |-> Obj(EmptyMap)]])

\* The completion call of the current attempt returned `response`: the try
\* block returns the parsed response, or throws into the catch block, which
\* returns {} on the last attempt and sleeps on an earlier one.
AttemptReturns(response) ==
    /\ "helper" \in DOMAIN client
    /\ client.helper.at = "chat"
    /\ LET h      == client.helper
           parsed == JSONparse(cleanResponse(response))
           texts  == Append(h.texts, response)
       IN  IF parsed.ok /\ validateAiResponse(parsed.value, h.contextType)
           THEN Builds([helper |-> [h EXCEPT !.texts = texts, !.at = "returned",
                                             !.result = parsed.value]])
           ELSE IF h.attempt = h.retries
           THEN Builds([helper |-> [h EXCEPT !.texts = texts, !.at = "returned",
                                             !.result = Obj(EmptyMap)]])
           ELSE Builds([helper |-> [h EXCEPT !.texts = texts, !.at = "sleep",
                                             !.waits = Append(@, RetryUnitMs * (h.attempt + 1))]])

\* The completion request failed: the promise of AOAI.chat is never settled.
AttemptNeverSettles ==
    /\ "helper" \in DOMAIN client
    /\ client.helper.at = "chat"
    /\ Builds([helper |-> [client.helper EXCEPT !.at = "hung"]])

\* The timer of the wait fired: for (...; attempt++)
WaitElapsed ==
    /\ "helper" \in DOMAIN client
    /\ client.helper.at = "sleep"
    /\ Builds([helper |-> [client.helper EXCEPT !.at = "chat", !.attempt = @ + 1]])

NextHelper ==
    \/ \E contextType \in ContextTypes, retries \in 0..MaxRetries :
          CallAiWithContext(contextType, retries)
    \/ \E response \in HelperResponses : AttemptReturns(response)
    \/ AttemptNeverSettles
    \/ WaitElapsed

SpecHelper == InitClient /\ [][NextHelper]_vars

\* ------------------------------------------------------------------ claims
\* The dependency relation of a flow, read off the connections themselves.
DependsOn(eps, input, a, b) ==
    /\ InInput(input, a)
    /\ InInput(input, b)
    /\ \E i \in 1..Len(eps[a].connections) : eps[a].connections[i].sourceNodeId = b

RECURSIVE DependsWithin(_, _, _, _, _)
DependsWithin(eps, input, a, b, n) ==
    /\ n > 0
    /\ \/ DependsOn(eps, input, a, b)
       \/ \E c \in Ids : DependsOn(eps, input, a, c) /\ DependsWithin(eps, input, c, b, n - 1)

DependsTransitively(eps, input, a, b) == DependsWithin(eps, input, a, b, Len(input))
OnCycle(eps, input, a) == DependsTransitively(eps, input, a, a)
HasCycle(eps, input) == \E a \in Ids : OnCycle(eps, input, a)

PositionIn(seq, x) == CHOOSE i \in 1..Len(seq) : seq[i] = x
Before(seq, a, b) == PositionIn(seq, a) < PositionIn(seq, b)

\* The places of the log of call r where executeEndpoint was entered for e.
Entries(r, e) ==
    {i \in 1..Len(log[r]) : log[r][i].step = "executeEndpoint" /\ log[r][i].endpoint = e}
\* The places of the log of call r where a step of the given kinds was taken for e.
Taken(r, e, steps) ==
    {i \in 1..Len(log[r]) : log[r][i].step \in steps /\ log[r][i].endpoint = e}

IsFlow(r) == call[r].kind = "flow" /\ pc[r] # "rejected"
FlowDone(r) == call[r].kind = "flow" /\ outcome[r].state = "resolved"

\* C1: in a flow, an endpoint is entered only after every endpoint of the flow
\* that is the source of one of its connections has finished (its result or
\* its failure was stored) and still has its result in the context; and when
\* every endpoint of the flow ran, each has a result under its own id.
C1_DependenciesFirst ==
    \A r \in Runs : IsFlow(r) =>
        /\ \A e \in Ids, s \in Ids :
              DependsOn(endpoints, call[r].input, e, s) =>
                 \A i \in Entries(r, e) :
                    /\ \E j \in Taken(r, s, {"record", "catch"}) : j < i
                    /\ Has(context.results, s)
                    /\ context.results[s].endpointId = s
        /\ (FlowDone(r) /\ Len(outcome[r].results) = Len(call[r].input)) =>
              \A e \in SeqToSet(call[r].input) :
                 Has(context.results, e) /\ context.results[e].endpointId = e

\* The flow [1 (depends on 2), 2] ran 2 before 1 and both results are stored.
C1_Witness ==
    \E r \in Runs :
        /\ FlowDone(r)
        /\ call[r].input = <<1, 2>>
        /\ DependsOn(endpoints, call[r].input, 1, 2)
        /\ flow[r].sorted = <<2, 1>>
        /\ Len(outcome[r].results) = 2
        /\ DOMAIN context.results = {1, 2}

\* C2: a flow whose connections form a cycle is rejected with the circular
\* dependency error, the error names an endpoint on a cycle, and nothing ran:
\* no step was taken, no collaborator was called, the context is as it was.
C2_CycleRejected ==
    \A r \in Runs :
        (call[r].kind = "flow" /\ HasCycle(endpoints, call[r].input)) =>
            /\ pc[r] = "rejected"
            /\ outcome[r].state = "rejected"
            /\ outcome[r].error = "Circular dependency detected involving endpoint"
            /\ OnCycle(endpoints, call[r].input, outcome[r].endpoint)
            /\ log[r] = <<>>
            /\ context.results = EmptyMap

\* A rejected flow whose cycle is longer than a self-connection and does not
\* pass through the first endpoint of the array.
C2_Witness ==
    \E r \in Runs :
        /\ pc[r] = "rejected"
        /\ ~OnCycle(endpoints, call[r].input, 1)
        /\ ~DependsOn(endpoints, call[r].input, outcome[r].endpoint, outcome[r].endpoint)

Unconstrained(eps, input, a, b) ==
    /\ a # b
    /\ InInput(input, a)
    /\ InInput(input, b)
    /\ ~DependsTransitively(eps, input, a, b)
    /\ ~DependsTransitively(eps, input, b, a)

\* C3 as stated: two endpoints with no ordering constraint between them keep
\* their input order in the resolved order.
C3_StableOrder ==
    \A r \in Runs : IsFlow(r) =>
        \A a \in Ids, b \in Ids :
            (Unconstrained(endpoints, call[r].input, a, b) /\ Before(call[r].input, a, b))
                => Before(flow[r].sorted, a, b)

\* An endpoint placed before a in the input depends, directly or through a
\* chain, on b.
PulledForward(eps, input, a, b) ==
    \E c \in Ids :
        /\ InInput(input, c)
        /\ Before(input, c, a)
        /\ DependsTransitively(eps, input, c, b)

\* C3 amended: two endpoints with no ordering constraint between them keep
\* their input order unless the later one is a dependency, direct or through
\* a chain, of an endpoint placed before the earlier one in the input.
C3_StableUnlessPulled ==
    \A r \in Runs : IsFlow(r) =>
        \A a \in Ids, b \in Ids :
            ( /\ Unconstrained(endpoints, call[r].input, a, b)
              /\ Before(call[r].input, a, b)
              /\ ~PulledForward(endpoints, call[r].input, a, b) )
                => Before(flow[r].sorted, a, b)

\* A resolved order that differs from the input order and still keeps an
\* unconstrained pair in its input order.
C3_Witness ==
    \E r \in Runs :
        /\ IsFlow(r)
        /\ flow[r].sorted # call[r].input
        /\ \E a \in Ids, b \in Ids :
              /\ Unconstrained(endpoints, call[r].input, a, b)
              /\ Before(call[r].input, a, b)
              /\ ~PulledForward(endpoints, call[r].input, a, b)
              /\ Before(flow[r].sorted, a, b)

\* C4: the results of a flow follow the resolved order; without
\* continueOnError the flow stops at the first failed result, which is the
\* last of the list, and no later endpoint of the order is touched; with
\* continueOnError every endpoint is entered exactly once and has one result.
C4_StopOrContinue ==
    \A r \in Runs : FlowDone(r) =>
        LET results == outcome[r].results
            sorted  == flow[r].sorted
            n       == Len(results)
        IN  /\ n <= Len(sorted)
            /\ \A i \in 1..n : results[i].endpointId = sorted[i]
            /\ \A i \in 1..n : Cardinality(Entries(r, sorted[i])) = 1
            /\ call[r].options.continueOnError => n = Len(sorted)
            /\ ~call[r].options.continueOnError =>
                  /\ \A i \in 1..(n - 1) : results[i].success
                  /\ n < Len(sorted) => ~results[n].success
                  /\ \A i \in (n + 1)..Len(sorted) :
                        /\ Taken(r, sorted[i], {"executeEndpoint", "validate", "http", "chat"}) = {}
                        /\ ~Has(context.results, sorted[i])

\* A flow of three endpoints that stopped at the failure of the first.
C4_Witness ==
    \E r \in Runs :
        /\ FlowDone(r)
        /\ ~call[r].options.continueOnError
        /\ Len(flow[r].sorted) = MaxEndpoints
        /\ Len(outcome[r].results) = 1
        /\ ~outcome[r].results[1].success

\* The failure result of the catch block: no success, status 0, empty request
\* headers and query, empty response, and the message of the error.
IsSyntheticFailure(result, message) ==
    /\ ~result.success
    /\ result.statusCode = 0
    /\ result.requestData.headers = EmptyMap
    /\ result.requestData.queryParams = EmptyMap
    /\ result.responseData = [headers |-> EmptyMap, body |-> Null]
    /\ result.error = message

Finished(r) == pc[r] \in {"return", "done"}

\* C5: executeEndpoint never rejects; an execution in which a step threw ends
\* with the synthetic failure result, which is the result returned and the
\* result stored in the context under the endpoint's id.
C5_ErrorsBecomeResults ==
    \A r \in Runs :
        /\ call[r].kind = "endpoint" => outcome[r].state # "rejected"
        /\ pc[r] # "rejected" \/ call[r].kind = "flow"
        /\ (Finished(r) /\ exec[r].error # "") =>
              /\ IsSyntheticFailure(exec[r].result, exec[r].error)
              /\ exec[r].result.endpointId = exec[r].endpoint
              /\ Has(context.results, exec[r].endpoint)
              /\ context.results[exec[r].endpoint] = exec[r].result
        /\ (call[r].kind = "endpoint" /\ pc[r] = "done") =>
              /\ outcome[r].state = "resolved"
              /\ outcome[r].result = exec[r].result
        /\ FlowDone(r) => outcome[r].results[Len(outcome[r].results)] = exec[r].result

\* executeEndpoint returned the failure of an HTTP call whose retries were
\* used up, and a later reader finds that failure in the context.
C5_Witness ==
    \E r \in Runs :
        /\ call[r].kind = "endpoint"
        /\ pc[r] = "done"
        /\ call[r].options.retries = MaxRetries
        /\ exec[r].error \in TransportErrors
        /\ ~context.results[exec[r].endpoint].success

\* The steps of the log of call r that belong to its running (or last)
\* executeEndpoint.
LastEntry(r) ==
    CHOOSE i \in 0..Len(log[r]) :
        /\ i > 0 => log[r][i].step = "executeEndpoint"
        /\ \A j \in (i + 1)..Len(log[r]) : log[r][j].step # "executeEndpoint"
        /\ i = 0 => Len(log[r]) = 0
CurrentSteps(r, steps) == {i \in (LastEntry(r) + 1)..Len(log[r]) : log[r][i].step \in steps}

\* C6 as stated: when the status code is not an expected one, the result that
\* was recorded before the check (actual status code and response body) is
\* the one in the context after executeEndpoint returned.
C6_RecordedResultKept ==
    \A r \in Runs :
        ( /\ Finished(r)
          /\ call[r].options.validateResponse
          /\ CurrentSteps(r, {"record"}) # {}
          /\ exec[r].response.status \notin Ep(r).expectedResponse )
        => /\ Has(context.results, exec[r].endpoint)
           /\ context.results[exec[r].endpoint].statusCode = exec[r].response.status
           /\ context.results[exec[r].endpoint].responseData.body = exec[r].response.data

\* The endpoint's own configuration or one of its typed connections is
\* rejected by the static validation.
StaticallyInvalid(e) ==
    \/ validate(endpoints[e]) # <<>>
    \/ validateTypedConnections(endpoints[e]).error # ""

\* C7 as stated: after a static validation error the context and the
\* endpoint's connections are as they were when executeEndpoint was entered.
C7_ValidationChangesNothing ==
    \A r \in Runs :
        (Finished(r) /\ StaticallyInvalid(exec[r].endpoint)) =>
            /\ context.results = exec[r].entry.results
            /\ endpoints[exec[r].endpoint].connections = exec[r].entry.connections

\* C7 amended: a static validation error is followed by no completion call, no
\* HTTP request and no backoff, and it changes no entry of the context but the
\* endpoint's own, which holds the synthetic failure; the connections change
\* in nothing but the validated flag.
C7_ValidationEffects ==
    \A r \in Runs :
        (Finished(r) /\ StaticallyInvalid(exec[r].endpoint)) =>
            LET e == exec[r].endpoint
                before == exec[r].entry
                conns == endpoints[e].connections
            IN  /\ CurrentSteps(r, {"chat", "http", "sleep", "record"}) = {}
                /\ Has(context.results, e)
                /\ IsSyntheticFailure(context.results[e], exec[r].error)
                /\ exec[r].error \in {"Endpoint validation failed", "Type incompatible connection",
                                      "Invalid transformation"}
                /\ DOMAIN context.results = DOMAIN before.results \cup {e}
                /\ \A id \in DOMAIN before.results \ {e} : context.results[id] = before.results[id]
                /\ context.variables = EmptyMap
                /\ Len(conns) = Len(before.connections)
                /\ \A i \in 1..Len(conns) :
                      [conns[i] EXCEPT !.validated = before.connections[i].validated]
                          = before.connections[i]

\* A typed connection error after which the context has a new entry and an
\* earlier connection of the endpoint has become validated.
C7_Witness ==
    \E r \in Runs :
        /\ Finished(r)
        /\ exec[r].error = "Type incompatible connection"
        /\ ~Has(exec[r].entry.results, exec[r].endpoint)
        /\ Has(context.results, exec[r].endpoint)
        /\ \E i \in 1..Len(exec[r].entry.connections) :
              /\ ~exec[r].entry.connections[i].validated
              /\ endpoints[exec[r].endpoint].connections[i].validated

\* The place of a step in the order of executeEndpoint.
Rank(step) ==
    CASE step = "executeEndpoint" -> 0
      [] step = "validate" -> 1
      [] step = "validateTypedConnections" -> 2
      [] step = "resolveEndpointData" -> 3
      [] step = "chat" -> 4
      [] step = "buildRequest" -> 5
      [] step = "auth" -> 6
      [] step \in {"http", "sleep"} -> 7
      [] step = "record" -> 8
      [] step = "validateResponse" -> 9
      [] step = "catch" -> 10

\* Events i < j of the log of r belong to the same execution of an endpoint.
SameExecution(r, i, j) == \A k \in (i + 1)..j : log[r][k].step # "executeEndpoint"

\* The events of step `step` that precede event j in its execution.
Earlier(r, j, step) ==
    {i \in 1..(j - 1) : log[r][i].step = step /\ SameExecution(r, i, j)}

\* The slots for which the endpoint asks the model, by its configuration.
SlotsAsked(ep) ==
    IF ep.naturalLanguageInput = "" THEN {}
    ELSE {slot \in {"path", "query", "body"} :
            \/ slot = "path" /\ DOMAIN ep.pathParams # {}
            \/ slot = "query" /\ DOMAIN ep.queryParams # {}
            \/ slot = "body" /\ ep.hasBody /\ ep.method # "GET"}

\* C8: within one execution the steps follow the order validation, typed
\* connections, connection resolution, AI resolution, request building,
\* authentication, HTTP, recording, response validation; only completion
\* calls and HTTP attempts repeat; nothing follows the catch; no completion
\* call and no HTTP request follows a validation failure; an HTTP request is
\* preceded by connection resolution, a completion call for every slot the
\* endpoint asks for, request building and authentication.
C8_StepOrder ==
    \A r \in Runs :
        /\ \A j \in 1..Len(log[r]) : \A i \in 1..(j - 1) :
              SameExecution(r, i, j) =>
                 /\ Rank(log[r][i].step) <= Rank(log[r][j].step)
                 /\ Rank(log[r][i].step) = Rank(log[r][j].step)
                       => log[r][i].step \in {"chat", "http", "sleep"}
                 /\ log[r][i].endpoint = log[r][j].endpoint
        /\ \A j \in 1..Len(log[r]) :
              /\ log[r][j].step \in {"chat", "http"} => ~StaticallyInvalid(log[r][j].endpoint)
              /\ log[r][j].step = "http" =>
                    /\ \A step \in {"validate", "validateTypedConnections", "resolveEndpointData",
                                    "buildRequest", "auth"} : Earlier(r, j, step) # {}
                    /\ {log[r][i].slot : i \in Earlier(r, j, "chat")}
                          = SlotsAsked(endpoints[log[r][j].endpoint])
        /\ (exec[r].error # "" /\ pc[r] # "catch") =>
              log[r][Len(log[r])].step = "catch"

\* An execution that went through completion calls, an HTTP request, the
\* recording and a failing response validation.
C8_Witness ==
    \E r \in Runs :
        /\ pc[r] = "done"
        /\ \A step \in {"chat", "http", "record", "validateResponse", "catch"} :
              CurrentSteps(r, {step}) # {}

\* C9: with retry budget r = options.retries an execution makes at most r+1
\* attempts; attempt k+1 directly follows the backoff of 2^k seconds that
\* followed the failed attempt k; a response ends the loop; the execution
\* fails with a transport error only after r+1 attempts, with the error of
\* the last one, whether the attempts failed by timeout or otherwise.
C9_RetryLoop ==
    \A r \in Runs :
        LET budget == call[r].options.retries IN
        /\ \A j \in 1..Len(log[r]) :
              /\ log[r][j].step = "http" =>
                    /\ log[r][j].attempt <= budget
                    /\ IF log[r][j].attempt = 0
                       THEN log[r][j - 1].step = "auth"
                       ELSE /\ log[r][j - 1].step = "sleep"
                            /\ log[r][j - 1].attempt = log[r][j].attempt - 1
                            /\ log[r][j - 1].ms = 1000 * 2 ^ (log[r][j].attempt - 1)
                            /\ log[r][j - 2].step = "http"
                            /\ log[r][j - 2].attempt = log[r][j].attempt - 1
                    /\ j < Len(log[r]) => log[r][j + 1].step \in {"sleep", "record", "catch"}
              /\ log[r][j].step = "sleep" =>
                    /\ log[r][j - 1].step = "http"
                    /\ log[r][j].attempt < budget
              /\ log[r][j].step = "record" => log[r][j - 1].step = "http"
        /\ Cardinality(CurrentSteps(r, {"http"})) <= budget + 1
        /\ (exec[r].error \in TransportErrors) =>
              /\ Cardinality(CurrentSteps(r, {"http"})) = budget + 1
              /\ exec[r].error = exec[r].lastError
              /\ CurrentSteps(r, {"record"}) = {}
        /\ pc[r] = "sleep" => exec[r].attempt < budget

\* Two attempts failed, the second by timeout, were each followed by their
\* backoff, and the third attempt failed and ended the execution.
C9_Witness ==
    \E r \in Runs :
        /\ pc[r] = "done"
        /\ call[r].options.retries = 2
        /\ exec[r].error = "The operation was aborted due to timeout"
        /\ Cardinality(CurrentSteps(r, {"http"})) = 3
        /\ \E j \in CurrentSteps(r, {"sleep"}) : log[r][j].ms = 2000

\* C10 as stated, for calls whose options name no timeout and no retries: the
\* attempts of an endpoint are cancelled after the endpoint's own timeout, and
\* an endpoint whose request keeps failing is attempted retries+1 times,
\* retries being the endpoint's own field.
C10_EndpointBudget ==
    \A r \in Runs :
        (call[r].options.timeout = 0 /\ call[r].options.retries = 0) =>
            /\ \A j \in 1..Len(log[r]) :
                  log[r][j].step = "http" => log[r][j].ms = endpoints[log[r][j].endpoint].timeout
            /\ (Finished(r) /\ exec[r].error \in TransportErrors) =>
                  Cardinality(CurrentSteps(r, {"http"})) = Ep(r).retries + 1

\* The results of the endpoints that completed before the running one in the
\* flow of call r, by endpoint id.
CompletedInFlow(r) ==
    [id \in {flow[r].sorted[i] : i \in 1..(flow[r].position - 1)} |->
        flow[r].results[PositionIn(flow[r].sorted, id)]]

\* C11: in a flow only the endpoint at the loop position is in execution: the
\* endpoints before it have completed and the context holds the results they
\* returned, the endpoints after it have written nothing, the call of
\* executeEndpoint for the next endpoint directly follows the storing of the
\* previous result, and the data resolved for the running endpoint is what
\* the results of the endpoints completed in this flow give.
C11_OneAtATime ==
    \A r \in Runs :
        (IsFlow(r) /\ pc[r] \notin {"idle", "rejected"}) =>
            LET p == flow[r].position
                sorted == flow[r].sorted
            IN  /\ exec[r].endpoint = sorted[p]
                /\ Len(flow[r].results) = IF pc[r] = "done" THEN p ELSE p - 1
                /\ \A i \in 1..(p - 1) :
                      /\ Has(context.results, sorted[i])
                      /\ context.results[sorted[i]] = flow[r].results[i]
                /\ \A i \in (p + 1)..Len(sorted) : ~Has(context.results, sorted[i])
                /\ Has(context.results, sorted[p])
                      <=> pc[r] \in {"validateResponse", "catch", "return", "done"}
                             /\ (pc[r] = "catch" => CurrentSteps(r, {"record"}) # {})
                /\ \A j \in 2..Len(log[r]) :
                      log[r][j].step = "executeEndpoint" =>
                         /\ log[r][j - 1].step \in {"record", "validateResponse", "catch"}
                         /\ Before(sorted, log[r][j - 1].endpoint, log[r][j].endpoint)
                /\ exec[r].resolvedData # NoData =>
                      exec[r].resolvedData = resolveEndpointData(Ep(r), CompletedInFlow(r))

\* The third endpoint of a flow is running with data resolved from the result
\* of an endpoint that completed in this flow.
C11_Witness ==
    \E r \in Runs :
        /\ IsFlow(r)
        /\ flow[r].position = 3
        /\ pc[r] = "fetch"
        /\ Has(exec[r].resolvedData.queryParams, "id")

\* C12: calls in flight on one engine share its context: the data a call
\* resolves for an endpoint is what resolveEndpointData gives on the whole
\* context as it stood when the endpoint was entered, whichever call wrote
\* its entries, and every entry of the context is a result that one of the
\* calls stored under that id.
C12_SharedContext ==
    /\ \A r \in Runs :
          exec[r].resolvedData # NoData =>
             exec[r].resolvedData = resolveEndpointData(Ep(r), exec[r].entry.results)
    /\ \A id \in DOMAIN context.results :
          \E r \in Runs :
             \/ exec[r].endpoint = id /\ exec[r].result = context.results[id]
             \/ \E i \in 1..Len(flow[r].results) :
                   flow[r].sorted[i] = id /\ flow[r].results[i] = context.results[id]

\* Call a is a flow whose first endpoint failed; call b then stored its own
\* successful result under that id, before the second endpoint of a was
\* entered; the second endpoint of a resolved its connection from the result
\* of b, which its own flow would not have given.
C12_Witness ==
    \E a \in Runs, b \in Runs :
        /\ a # b
        /\ IsFlow(a)
        /\ flow[a].position = 2
        /\ exec[a].resolvedData # NoData
        /\ ~flow[a].results[1].success
        /\ exec[b].endpoint = flow[a].sorted[1]
        /\ exec[b].result # NoResult
        /\ exec[b].result.success
        /\ exec[a].entry.results[flow[a].sorted[1]] = exec[b].result
        /\ Has(exec[a].resolvedData.queryParams, "id")
        /\ exec[a].resolvedData # resolveEndpointData(Ep(a), CompletedInFlow(a))

\* No call is between the storing of a result and its return.
Quiescent == \A r \in Runs : pc[r] \in {"idle", "return", "done", "rejected"}

\* C13: between calls the context maps an endpoint id exactly to the result
\* that the last completed execution of that id returned since the last
\* clearContext, ids not executed since then have no entry, and the variables
\* are those set since the last clearContext (none right after it).
C13_ContextIsLastResults ==
    Quiescent =>
        /\ context.results = client.returned
        /\ context.variables = client.variables
        /\ \A r \in Runs :
              (pc[r] = "done" /\ call[r].kind = "endpoint") =>
                 context.results[exec[r].endpoint] = outcome[r].result

\* After a clearContext an endpoint was executed again and its new result,
\* which differs from the one before, is the entry of the context, while an
\* endpoint executed only before the clearContext has no entry.
C13_Witness ==
    \E r \in Runs :
        /\ pc[r] = "done"
        /\ call[r].kind = "endpoint"
        /\ Has(exec[r].entry.results, exec[r].endpoint)
        /\ exec[r].entry.results[exec[r].endpoint] # context.results[exec[r].endpoint]
        /\ context.results[exec[r].endpoint] = outcome[r].result
        /\ DOMAIN context.results = {exec[r].endpoint}
        /\ context.variables = EmptyMap

\* The position of a slot in processAiResolution's order of resolvers.
SlotRank(slot) == CASE slot = "path" -> 1 [] slot = "query" -> 2 [] OTHER -> 3

\* C14: the completion call is never retried: the completion calls of one
\* execution are for different slots, in the order path, query, body (so at
\* most three); every response was the answer to one call; a response that is
\* unparsable or fails the schema validation is the last one of its
\* execution: no completion call and no HTTP request follows it.
C14_NoCompletionRetry ==
    \A r \in Runs :
        LET chats == CurrentSteps(r, {"chat"})
            ai    == exec[r].ai
        IN  /\ \A i, j \in chats : i < j => SlotRank(log[r][i].slot) < SlotRank(log[r][j].slot)
            /\ Cardinality(chats) <= 3
            /\ Len(ai) <= Cardinality(chats)
            /\ Cardinality(chats) <= Len(ai) + 1
            /\ \A k \in 1..Len(ai) :
                  /\ ai[k].slot = log[r][CHOOSE i \in chats :
                                            Cardinality({j \in chats : j <= i}) = k].slot
                  /\ ai[k].error # "" =>
                        /\ k = Len(ai)
                        /\ Cardinality(chats) = k
                        /\ CurrentSteps(r, {"http", "buildRequest", "auth"}) = {}
                        /\ pc[r] \in {"catch", "return", "done"}

\* An execution asked for path, query and body; the body response was
\* rejected and the execution ended without an HTTP request.
C14_Witness ==
    \E r \in Runs :
        /\ pc[r] = "done"
        /\ Len(exec[r].ai) = 3
        /\ exec[r].ai[3].error # ""
        /\ [k \in 1..3 |-> exec[r].ai[k].slot] = <<"path", "query", "body">>
        /\ CurrentSteps(r, {"http"}) = {}

\* The text holds a { before a }, or a [ before a ].
HasJsonStructure(text) ==
    \E i, j \in 1..Len(text) :
        i < j /\ <<text[i], text[j]>> \in {<<"{", "}">>, <<"[", "]">>}

\* C15 as stated: a response without a {...} and without a [...] part is
\* rejected with an error of its own kind, not the one of a JSON parse
\* failure, and without having been parsed; a response with such a part that
\* is not valid JSON is rejected with the JSON parse error.
C15_NoStructureIsItsOwnError ==
    \A r \in Runs : \A k \in 1..Len(exec[r].ai) :
        LET res == exec[r].ai[k] IN
        IF HasJsonStructure(res.cleaned)
        THEN ~res.parsed => res.error = NotJsonMessage(res.slot)
        ELSE /\ ~res.parsed
             /\ res.error # ""
             /\ res.error # NotJsonMessage(res.slot)

\* The parameter definitions of a slot, and the slot's part of the resolved data.
SlotDefinitions(ep, slot) ==
    CASE slot = "path" -> ep.pathParams
      [] slot = "query" -> ep.queryParams
      [] OTHER -> IF ep.hasBodySchema THEN ep.bodySchema ELSE EmptyMap
SlotValue(data, slot) ==
    CASE slot = "path" -> Obj(data.pathParams)
      [] slot = "query" -> Obj(data.queryParams)
      [] OTHER -> data.body

\* The keys whose value in the resolved data was taken from the model's result.
TakenFromModel(res) ==
    {key \in OwnKeys(res.ai) :
        /\ Get(SlotValue(res.after, res.slot), key) = Get(res.ai, key)
        /\ Get(SlotValue(res.before, res.slot), key) # Get(res.ai, key)}

\* C16 as stated: when an HTTP request is sent, every value of the path, the
\* query or the body that was taken from a model response was checked against
\* a parameter definition of its slot, without error; after a validation
\* error no HTTP request is sent.
C16_OnlyValidatedValues ==
    \A r \in Runs : \A k \in 1..Len(exec[r].ai) :
        LET res  == exec[r].ai[k]
            defs == SlotDefinitions(Ep(r), res.slot)
        IN  /\ res.errors # {} => CurrentSteps(r, {"http"}) = {}
            /\ CurrentSteps(r, {"http"}) # {} =>
                  \A key \in TakenFromModel(res) :
                      /\ key \in DOMAIN defs
                      /\ validateParameter(Get(res.ai, key), defs[key]) = {}

\* C17 as stated: after a successful resolution of the path or the query
\* slot, a key that is declared for the slot and present in the model's result
\* has the model's value, whether or not it had a value before, and every
\* other key is as it was before the resolution.
C17_MergeOnDeclaredKeys ==
    \A r \in Runs : \A k \in 1..Len(exec[r].ai) :
        LET res    == exec[r].ai[k]
            before == SlotValue(res.before, res.slot)
            after  == SlotValue(res.after, res.slot)
            merged == DOMAIN SlotDefinitions(Ep(r), res.slot) \cap OwnKeys(res.ai)
        IN  (res.slot \in {"path", "query"} /\ res.error = "") =>
                /\ OwnKeys(after) = OwnKeys(before) \cup merged
                /\ \A key \in OwnKeys(after) :
                      Get(after, key) = IF key \in merged THEN Get(res.ai, key)
                                        ELSE Get(before, key)

\* The connections of the running execution that yield a value for the field
\* `field` of `location`: the source has a successful result and the source
\* field is there.
Yielding(r, location, field) ==
    {i \in 1..Len(Ep(r).connections) :
        LET c == Ep(r).connections[i]
            results == exec[r].entry.results
        IN  /\ c.targetLocation = location
            /\ c.targetField = field
            /\ Has(results, c.sourceNodeId)
            /\ results[c.sourceNodeId].success
            /\ extractValueFromResult(results[c.sourceNodeId], c.sourceField) # Undefined}

\* The value connection i hands over: the extracted value after the transform.
Delivered(r, i) ==
    LET c == Ep(r).connections[i]
        v == extractValueFromResult(exec[r].entry.results[c.sourceNodeId], c.sourceField)
        w == IF c.transform = "" THEN v ELSE applyTransformation(v, c.transform)
    IN  IF c.targetLocation = "header" THEN String(w) ELSE w

\* The cached mapping's value and the declared default of a field.
Cached(ep, location, field) ==
    CASE location = "query" -> Get(Obj(ep.resolvedParams), field)
      [] location = "body" /\ ep.hasBody -> Get(Obj(ep.resolvedBody), field)
      [] OTHER -> Undefined
Declared(ep, location, field) ==
    CASE location = "query" -> Get(Obj(DefaultsOf(ep.queryParams)), field)
      [] location = "path" -> Get(Obj(DefaultsOf(ep.pathParams)), field)
      [] location = "body" /\ ep.hasBody -> Get(Obj(ep.bodyContent), field)
      [] location = "header" -> Get(Obj(ep.headers), field)
      [] OTHER -> Undefined

\* The part of the resolved data a location names.
ResolvedAt(data, location) ==
    CASE location = "query" -> Obj(data.queryParams)
      [] location = "path" -> Obj(data.pathParams)
      [] location = "header" -> Obj(data.headers)
      [] OTHER -> data.body

Locations == {"query", "path", "body", "header"}
FieldNames == {"id", "q", "name", "X-Id"}

\* C18: after the connection resolution every field of the query, the path,
\* the body and the headers has the value of the (last) connection that
\* yields one, otherwise the cached mapping's value if there is one,
\* otherwise the declared default, otherwise none.
C18_Precedence ==
    \A r \in Runs :
        pc[r] = "buildRequestConfig" =>
            \A location \in Locations, field \in FieldNames :
                LET yielding == Yielding(r, location, field)
                    resolved == Get(ResolvedAt(exec[r].resolvedData, location), field)
                IN  /\ OwnKeys(ResolvedAt(exec[r].resolvedData, location)) \subseteq FieldNames
                    /\ resolved =
                          IF yielding # {}
                          THEN Delivered(r, CHOOSE i \in yielding : \A j \in yielding : j <= i)
                          ELSE IF Cached(Ep(r), location, field) # Undefined
                          THEN Cached(Ep(r), location, field)
                          ELSE Declared(Ep(r), location, field)

\* A connection value has overridden a cached value that differs from the
\* default, and in the same data a cached value has overridden a default.
C18_Witness ==
    \E r \in Runs :
        /\ pc[r] = "buildRequestConfig"
        /\ Yielding(r, "query", "id") # {}
        /\ exec[r].resolvedData.queryParams["id"] = Num(7)
        /\ Cached(Ep(r), "query", "id") = Num(5)
        /\ Declared(Ep(r), "query", "id") = Num(1)
        /\ exec[r].resolvedData.queryParams["q"] = Num(5)
        /\ Declared(Ep(r), "query", "q") = Num(1)
        /\ exec[r].resolvedData.queryParams["name"] = Str("a")

\* Connection i of the running execution is one the resolver has to skip.
Skipped(r, i) ==
    LET c == Ep(r).connections[i]
        results == exec[r].entry.results
    IN  \/ ~Has(results, c.sourceNodeId)
        \/ ~results[c.sourceNodeId].success
        \/ extractValueFromResult(results[c.sourceNodeId], c.sourceField) = Undefined

\* The value of a field before any connection: cached, else default, else none.
Base(ep, location, field) ==
    IF Cached(ep, location, field) # Undefined THEN Cached(ep, location, field)
    ELSE Declared(ep, location, field)

EncodedText(value) ==
    CASE value.t = "number" /\ value.v \in {1, 7, 9} -> ToString(value.v)
      [] value = Str("7") -> "7"
      [] value = Str("a") -> "a"
      [] value = Str("a b") -> "a%20b"
      [] value.t = "object" -> "%5Bobject%20Object%5D"

\* The path connections that hand their value over, for an execution that has
\* sent its request; the value the model gave for a path parameter, if any.
PathDeliveries(r) ==
    IF exec[r].endpoint = NoId \/ CurrentSteps(r, {"http"}) = {} THEN {}
    ELSE {i \in 1..Len(Ep(r).connections) :
             /\ Ep(r).connections[i].targetLocation = "path"
             /\ i \in Yielding(r, "path", Ep(r).connections[i].targetField)}
FromModel(r, field) ==
    {Get(exec[r].ai[k].ai, field) : k \in {j \in 1..Len(exec[r].ai) :
        /\ exec[r].ai[j].slot = "path"
        /\ exec[r].ai[j].error = ""
        /\ field \in DOMAIN exec[r].ai[j].before.pathParams
        /\ field \in OwnKeys(exec[r].ai[j].ai)}}

\* C20 as stated: when the source succeeded with value v at the source field
\* of a path connection, the target's path parameter is v after the transform
\* and the request goes to baseUrl + path with the placeholder replaced by the
\* percent-encoded v.
C20_PathValueReachesUrl ==
    \A r \in Runs : \A i \in PathDeliveries(r) :
        /\ exec[r].resolvedData.pathParams[Ep(r).connections[i].targetField] = Delivered(r, i)
        /\ exec[r].requestConfig.url
              = Ep(r).baseUrl \o "/products/" \o EncodedText(Delivered(r, i))

\* C20, amended: the connection resolution sets the path parameter to v after
\* the transform; the request goes to the URL with the percent-encoded v
\* unless the target has natural-language input and the model's validated
\* path result names the parameter: then the model's value takes the place
\* of v, in the path parameters and in the URL.
C20_PathValueUnlessModel ==
    \A r \in Runs :
        /\ (pc[r] = "buildRequestConfig") =>
              \A i \in Yielding(r, "path", "id") :
                  (\A j \in Yielding(r, "path", "id") : j <= i) =>
                      exec[r].resolvedData.pathParams["id"] = Delivered(r, i)
        /\ \A i \in PathDeliveries(r) :
              LET field == Ep(r).connections[i].targetField
                  final == IF FromModel(r, field) = {} THEN Delivered(r, i)
                           ELSE CHOOSE value \in FromModel(r, field) : TRUE
              IN  /\ Ep(r).naturalLanguageInput = "" => FromModel(r, field) = {}
                  /\ exec[r].resolvedData.pathParams[field] = final
                  /\ exec[r].requestConfig.url
                        = Ep(r).baseUrl \o "/products/" \o EncodedText(final)

\* The example: the source answered with the list [{id: 7, ...}], the
\* connection from its field 0.id fed the path parameter id, and the request
\* went to .../products/7 and succeeded; the target has no natural-language
\* input.
C20_Witness ==
    \E r \in Runs :
        /\ pc[r] = "done"
        /\ exec[r].endpoint = 2
        /\ Ep(r).naturalLanguageInput = ""
        /\ Ep(r).connections = <<[FirstId EXCEPT !.validated = TRUE]>>
        /\ PathDeliveries(r) = {1}
        /\ exec[r].entry.results[1].responseData.body = ProductList
        /\ exec[r].resolvedData.pathParams = ("id" :> Num(7))
        /\ exec[r].requestConfig.url = "https://api/products/7"
        /\ exec[r].result.success

\* The last call of the client was `op`.
Called(op) == "last" \in DOMAIN client /\ client.last.op = op

\* C21 as stated: the builder's type check and the engine's are the same
\* relation, the rule of the compatibility matrix: s = t, or t = string, or
\* s = string and t number or boolean, or s array or object and t = object.
C21_SameCompatibility ==
    Called("areTypesCompatible") =>
        LET s == client.last.args[1]
            t == client.last.args[2]
            rule == \/ s = t
                    \/ t = "string"
                    \/ s = "string" /\ t \in {"number", "boolean"}
                    \/ s \in {"array", "object"} /\ t = "object"
        IN  /\ client.last.result.builder = rule
            /\ client.last.result.engine = rule

\* C22 as stated: a connection whose transform is valid for its declared
\* source and target types is constructed by the builder and passes the
\* engine's typed validation, whether or not its bare types are compatible.
C22_TransformExcusesTypes ==
    Called("mapTo") =>
        LET s == client.last.args[1]
            t == client.last.args[2]
            name == client.last.args[3]
        IN  (isValidTransformation(name, s, t) /\ client.last.args[4] = "query") =>
                /\ client.last.result.builder = ""
                /\ client.last.result.engine = ""

\* C23 as stated: the chat call always settles, so no execution is left
\* waiting at a completion call whose request failed.
C23_ChatSettles == \A r \in Runs : pc[r] # "hung"

\* C24: a required parameter whose value is null, undefined or the empty
\* text gets exactly one error, the required-field error, whatever the type,
\* the constraints, the items or the properties of its definition are.
C24_RequiredEmptyOneError ==
    (/\ Called("validateParameter")
     /\ client.last.args[2].required
     /\ client.last.args[1] \in {Null, Undefined, Str("")})
    => client.last.result = <<"is missing or empty">>

\* A required number with an enumeration was validated for the empty text,
\* which is neither a number nor enumerated.
C24_Witness ==
    /\ Called("validateParameter")
    /\ client.last.args[1] = Str("")
    /\ client.last.args[2].required
    /\ client.last.args[2].type = "number"
    /\ "validation" \in DOMAIN client.last.args[2]
    /\ "enum" \in DOMAIN client.last.args[2].validation
    /\ client.last.result = <<"is missing or empty">>

\* C25: the bounds of a number are inclusive. Under a definition of type
\* number with validation.min (validation.max), a number below the minimum
\* (above the maximum) gets the bound error and the number equal to the
\* bound gets none.
C25_InclusiveBounds ==
    (/\ Called("validateParameter")
     /\ client.last.args[2].type = "number"
     /\ "validation" \in DOMAIN client.last.args[2]
     /\ client.last.args[1].t = "number")
    => LET value == client.last.args[1].v
           validation == client.last.args[2].validation
           errors == SeqToSet(client.last.result)
       IN  /\ "min" \in DOMAIN validation =>
                 /\ value < validation.min => "is below minimum" \in errors
                 /\ value = validation.min => "is below minimum" \notin errors
           /\ "max" \in DOMAIN validation =>
                 /\ value > validation.max => "is above maximum" \in errors
                 /\ value = validation.max => "is above maximum" \notin errors

\* The number equal to the minimum was validated under a definition with both
\* bounds, and no error was reported.
C25_Witness ==
    /\ Called("validateParameter")
    /\ client.last.args[2].type = "number"
    /\ "validation" \in DOMAIN client.last.args[2]
    /\ DOMAIN client.last.args[2].validation = {"min", "max"}
    /\ client.last.args[1] = Num(client.last.args[2].validation.min)
    /\ client.last.result = <<>>

\* The authentication headers among `headers`, and the ones the credentials
\* of a configuration make.
AuthHeaders(headers) ==
    [name \in DOMAIN headers \cap {"Authorization", "X-API-Key", "X-Key"} |-> headers[name]]
Credentials(config) ==
    IF config.type \in {"none", "undefined"} THEN EmptyMap
    ELSE applyAuth([headers |-> EmptyMap], config).headers

\* C26: the request that is sent carries the credentials of endpoint.auth
\* whenever endpoint.auth is set (none when its type is 'none'), the
\* credentials of the global authentication when only that is set, and no
\* authentication header when neither is set.
C26_AuthPrecedence ==
    \A r \in Runs :
        pc[r] \in {"executeHttpRequest", "fetch"} =>
            LET sent == AuthHeaders(exec[r].requestConfig.headers) IN
            /\ Ep(r).auth # NoAuth => sent = Credentials(Ep(r).auth)
            /\ Ep(r).auth = NoAuth => sent = Credentials(globalAuth)
            /\ (Ep(r).auth = NoAuth /\ globalAuth = NoAuth) => sent = EmptyMap

\* A request is in flight for an endpoint with a bearer token of its own on
\* an engine with a global API key: it carries the token and no API key.
C26_Witness ==
    \E r \in Runs :
        /\ pc[r] = "fetch"
        /\ Ep(r).auth = Bearer
        /\ globalAuth = [type |-> "apiKey", apiKey |-> "g1"]
        /\ exec[r].requestConfig.headers = "Authorization" :> Str("Bearer t0")

\* C27: a built-in handler whose required configuration is missing or empty
\* (no apiKey; no token; username or password missing) returns the request it
\* was given with no header added, removed or changed.
C27_HandlersLeaveRequest ==
    Called("applyAuth") =>
        LET request == client.last.args[1]
            config == client.last.args[2]
            missing(field) == field \notin DOMAIN config \/ config[field] = ""
        IN  (\/ config.type = "apiKey" /\ missing("apiKey")
             \/ config.type = "bearerToken" /\ missing("token")
             \/ config.type = "basic" /\ (missing("username") \/ missing("password")))
            => client.last.result = request

\* The basic handler was given a request with an Authorization header and a
\* configuration with a user name and an empty password, and returned the
\* request with the header it had.
C27_Witness ==
    /\ Called("applyAuth")
    /\ client.last.args[2] = [type |-> "basic", username |-> "u", password |-> ""]
    /\ client.last.args[1].headers = "Authorization" :> Str("Bearer old")
    /\ client.last.result = client.last.args[1]

\* C28: a definition that build() returned is an independent copy: no later
\* call on the builder changes any of its fields, the nested validation rules
\* included.
C28_BuiltIsIndependent ==
    "built" \in DOMAIN client =>
        \A i \in 1..Len(client.built) :
            Deref(client.built[i].definition, client.heap) = client.built[i].value

\* C29: connection ids are unique: two distinct connections created by
\* addConnection, addTypedConnection or addConnections have different ids,
\* also for the same pair of endpoints within the same millisecond.
C29_UniqueConnectionIds ==
    "created" \in DOMAIN client =>
        \A i, j \in 1..Len(client.created) :
            i # j => client.created[i].id # client.created[j].id

\* The typed connections of endpoint e that have a transform, and whether
\* one of them fails isValidTransformation.
HasInvalidTransform(e) ==
    \E i \in 1..Len(endpoints[e].connections) :
        LET c == endpoints[e].connections[i] IN
        /\ c.sourceType # "" /\ c.targetType # "" /\ c.transform # ""
        /\ ~isValidTransformation(c.transform, c.sourceType, c.targetType)

\* isValidTransformation against the rule, for the names with a declared set,
\* the names the applier implements without one, and an unknown name.
FollowsDeclaredSets ==
    \A name \in {"string", "number", "boolean", "upper", "lower", "trim", "bearer-prefix",
                  "array-wrap", "array-first", "basic-auth", "json-stringify", "url-encode",
                  "reverse"},
       s, t \in ParameterTypes :
       isValidTransformation(name, s, t)
           = /\ name \in {"string", "number", "boolean", "upper", "lower", "trim",
                           "bearer-prefix", "array-wrap", "array-first"}
             /\ s \in validTransformations[name].from
             /\ t \in validTransformations[name].to

\* C30: isValidTransformation is true exactly for a name that has a declared
\* input and output set, a source type in the input set and a target type in
\* the output set; it is false for every other name, the names the applier
\* implements without a rule (basic-auth, json-stringify, url-encode)
\* included. An endpoint with a typed connection whose transform fails the
\* check fails before any completion call or HTTP request is made for it.
C30_ValidTransform ==
    /\ FollowsDeclaredSets
    /\ \A r \in Runs, e \in Ids :
          HasInvalidTransform(e) =>
              /\ Taken(r, e, {"chat", "http"}) = {}
              /\ Has(context.results, e) => ~context.results[e].success

\* The execution of an endpoint fed through a text-to-text connection with
\* the transform 'number' has failed on the transform, after the endpoint
\* that feeds it got its response.
C30_Witness ==
    \E r \in Runs :
        /\ pc[r] = "return"
        /\ exec[r].endpoint = 2
        /\ HasInvalidTransform(2)
        /\ Taken(r, 1, {"http"}) # {}
        /\ Has(context.results, 2)
        /\ context.results[2].error = "Invalid transformation"

\* The value found by descending from `current` along the keys parts[i..],
\* the keys of an object and the indices of an array; undefined as soon as a
\* key is absent or the value is neither.
RECURSIVE ValueAt(_, _, _)
ValueAt(current, parts, i) ==
    IF i > Len(parts) THEN current
    ELSE IF parts[i] \in OwnKeys(current) THEN ValueAt(Get(current, parts[i]), parts, i + 1)
    ELSE Undefined

\* C31: extraction along a dot-separated path returns the value found by
\* descending key by key into the body, the whole body for the empty path and
\* for ".", and undefined as soon as a key is absent or the current value is
\* not an object.
C31_ExtractsAlongPath ==
    Called("extractValueFromResult") =>
        LET body == client.last.args[1]
            path == client.last.args[2]
        IN  client.last.result =
                IF path \in {<<"">>, <<"", "">>} THEN body ELSE ValueAt(body, path, 1)

\* The slots that apply to an endpoint with a natural-language input: path
\* and query when a parameter of that kind is declared, body when the method
\* is not read-only and the endpoint has a body schema.
SlotsThatApply(ep) ==
    IF ep.naturalLanguageInput = "" THEN {}
    ELSE {slot \in {"path", "query", "body"} :
            \/ slot = "path" /\ DOMAIN ep.pathParams # {}
            \/ slot = "query" /\ DOMAIN ep.queryParams # {}
            \/ slot = "body" /\ ep.method \notin {"GET", "HEAD", "OPTIONS"} /\ ep.hasBodySchema}

\* C32: a completion is asked for a slot only when the endpoint has a
\* natural-language input and the slot applies, and by the time the HTTP
\* request of an execution is made a completion was asked for every slot that
\* applies.
C32_SlotsConsulted ==
    \A r \in Runs :
        \A j \in 1..Len(log[r]) :
            /\ log[r][j].step = "chat" =>
                  log[r][j].slot \in SlotsThatApply(endpoints[log[r][j].endpoint])
            /\ log[r][j].step = "http" =>
                  SlotsThatApply(endpoints[log[r][j].endpoint])
                      \subseteq {log[r][i].slot : i \in Earlier(r, j, "chat")}

\* C33: a model body whose serialized size exceeds the ceiling is rejected
\* with the 'too large' error unless it is rejected for another reason, and
\* no HTTP request is sent for it, whether or not the body declares a schema.
C33_CeilingEnforced ==
    \A r \in Runs : \A k \in 1..Len(exec[r].ai) :
        LET res == exec[r].ai[k] IN
        (res.slot = "body" /\ res.parsed /\ stringifiedLength(res.ai) > MaxBodySize) =>
            /\ res.error # ""
            /\ res.errors \subseteq {<<"", "AI body response too large">>}
                  => res.error = "AI body response too large"
            /\ CurrentSteps(r, {"http"}) = {}

\* An endpoint whose base URL and path are not empty and whose required query
\* parameters each have a default value or a cached mapped value, whatever
\* defined value that is.
Resolvable(ep) ==
    /\ ep.baseUrl # ""
    /\ ep.path # <<>>
    /\ \A k \in DOMAIN ep.queryParams :
          ep.queryParams[k].required =>
              \/ ep.queryParams[k].defaultValue # Undefined
              \/ k \in DOMAIN ep.resolvedParams /\ ep.resolvedParams[k] # Undefined

\* C34: the self-validation of an endpoint accepts it exactly when its base
\* URL and path are not empty and every required query parameter has a
\* default value (0, false and the empty text included) or a cached mapped
\* value.
C34_AcceptsResolvable ==
    \A r \in Runs :
        (exec[r].endpoint # NoId /\ CurrentSteps(r, {"validate"}) # {}) =>
            (exec[r].error = "Endpoint validation failed") = ~Resolvable(Ep(r))

\* C35: for an execution that received an HTTP response, the returned result
\* has success = TRUE whatever the status code when the caller did not ask
\* for validateResponse, and has success = TRUE exactly when the status code
\* is one of the expected responses of the endpoint when the caller did; the
\* request is not made again after the response.
C35_SuccessAndStatus ==
    \A r \in Runs :
        (Finished(r) /\ exec[r].endpoint # NoId /\ CurrentSteps(r, {"record"}) # {}) =>
            /\ exec[r].result.success =
                  (call[r].options.validateResponse
                      => exec[r].response.status \in Ep(r).expectedResponse)
            /\ exec[r].result.success => exec[r].result.statusCode = exec[r].response.status
            /\ \A i \in CurrentSteps(r, {"record"}), j \in CurrentSteps(r, {"http", "sleep"}) :
                  j < i

\* A call without validateResponse that allowed retries has returned a
\* successful result with the status code 404.
C35_Witness ==
    \E r \in Runs :
        /\ pc[r] = "done"
        /\ ~call[r].options.validateResponse
        /\ call[r].options.retries > 0
        /\ exec[r].result.success
        /\ exec[r].result.statusCode = 404

\* The model responses for the path or query slot, in the current execution
\* of call r, that are JSON and leave out or leave empty a parameter the
\* schema of the slot declares required.
OmitsRequired(r) ==
    {k \in 1..Len(exec[r].ai) :
        LET res == exec[r].ai[k] IN
        /\ res.slot \in {"path", "query"}
        /\ res.parsed /\ res.ai.t # "null"
        /\ \E name \in DOMAIN SlotDefinitions(Ep(r), res.slot) :
              /\ SlotDefinitions(Ep(r), res.slot)[name].required
              /\ Get(res.ai, name) \in {Undefined, Null, Str("")}}

\* C36: a model response for the path or query slot that leaves out a
\* required parameter of the slot makes the execution fail with the AI
\* validation error of the slot, and no HTTP request is sent, also when the
\* parameter has a value from a default or a connection.
C36_ResponseAloneValidated ==
    \A r \in Runs :
        exec[r].endpoint # NoId =>
            \A k \in OmitsRequired(r) :
                /\ exec[r].ai[k].error = ValidationMessage(exec[r].ai[k].slot)
                /\ exec[r].ai[k].after = exec[r].ai[k].before
                /\ CurrentSteps(r, {"http"}) = {}
                /\ Finished(r) => ~exec[r].result.success

\* An execution has failed on a path response that is an object without the
\* required parameter id, which has a default value.
C36_Witness ==
    \E r \in Runs :
        /\ pc[r] = "return"
        /\ exec[r].endpoint # NoId
        /\ \E k \in OmitsRequired(r) :
              /\ exec[r].ai[k].slot = "path"
              /\ exec[r].ai[k].ai = Obj("zz" :> Num(9))
              /\ Ep(r).pathParams["id"].defaultValue = Num(1)
              /\ Get(Obj(exec[r].ai[k].before.pathParams), "id") = Num(1)
        /\ ~exec[r].result.success

\* The loops of call r are bounded: the retry loop of the current execution
\* has sent at most retries + 1 requests, the dependency sort lists no
\* endpoint twice, and the flow has entered no endpoint twice.
BoundedLoops(r) ==
    /\ Cardinality(CurrentSteps(r, {"http"})) <= call[r].options.retries + 1
    /\ \A i, j \in 1..Len(flow[r].sorted) : flow[r].sorted[i] = flow[r].sorted[j] => i = j
    /\ \A e \in Ids : Cardinality(Entries(r, e)) <= 1

\* Call r has ended the way its kind of call ends: executeEndpoint with a
\* result, executeFlow with its list of results or with the cycle error.
Settled(r) ==
    \/ /\ call[r].kind = "endpoint"
       /\ outcome[r].state = "resolved"
       /\ outcome[r].result = exec[r].result
       /\ outcome[r].result # NoResult
    \/ /\ call[r].kind = "flow"
       /\ outcome[r].state = "resolved"
       /\ Len(outcome[r].results) \in 1..Len(flow[r].sorted)
    \/ /\ call[r].kind = "flow"
       /\ outcome[r].state = "rejected"
       /\ outcome[r].error = "Circular dependency detected involving endpoint"

\* C37: when every completion call and every HTTP attempt returns or fails,
\* every executeEndpoint call ends with a result and every executeFlow call
\* ends with its list of results or with the cycle error; on the way the retry
\* loop sends at most retries + 1 requests and neither the dependency sort nor
\* the flow loop handles an endpoint twice. A completion call that stays
\* pending for ever is outside the assumption.
C37_Terminates ==
    /\ [](\A r \in Runs : BoundedLoops(r))
    /\ \A r \in {1} :
          [](pc[r] # "hung") => ((pc[r] # "idle") ~> Settled(r))

\* A flow over two endpoints has returned both results after the request of
\* the second endpoint was retried as often as the options allow.
C37_Witness ==
    \E r \in Runs :
        /\ call[r].kind = "flow"
        /\ call[r].options.retries = MaxRetries
        /\ outcome[r].state = "resolved"
        /\ Len(outcome[r].results) = 2
        /\ \E i \in CurrentSteps(r, {"http"}) : log[r][i].attempt = MaxRetries

\* The response of an attempt of the helper, as the helper parses it.
ParsedAttempt(i) == JSONparse(cleanResponse(client.helper.texts[i]))

\* The shape a response must have for a slot: for path and query an object
\* whose values are strings, numbers or booleans; for the body any JSON
\* object or array.
ValidShape(value, contextType) ==
    IF contextType = "body" THEN value.t \in {"object", "array"}
    ELSE /\ value.t = "object"
         /\ \A k \in DOMAIN value.v : value.v[k].t \in {"string", "number", "boolean"}

GoodAttempts ==
    {i \in 1..Len(client.helper.texts) :
        /\ ParsedAttempt(i).ok
        /\ ValidShape(ParsedAttempt(i).value, client.helper.contextType)}

\* C38: callAiWithContext with retry count n makes at most n + 1 completion
\* calls, waits 1000 * (k + 1) ms after failed attempt k before the next one,
\* returns the parsed response of the first attempt that parses as JSON and
\* has a valid shape for its slot, returns the empty object after n + 1 failed
\* attempts, and never throws.
C38_RetryHelper ==
    "helper" \in DOMAIN client =>
        LET h == client.helper IN
        /\ Len(h.texts) <= h.retries + 1
        /\ h.at # "threw"
        /\ \A k \in 1..Len(h.waits) : h.waits[k] = 1000 * k
        /\ Len(h.waits) = IF h.at = "returned" THEN Len(h.texts) - 1 ELSE Len(h.texts)
        /\ h.at \in {"sleep", "chat", "hung"} => GoodAttempts = {}
        /\ h.at = "returned" =>
              IF GoodAttempts = {}
              THEN h.result = Obj(EmptyMap) /\ Len(h.texts) = h.retries + 1
              ELSE /\ GoodAttempts = {Len(h.texts)}
                   /\ h.result = ParsedAttempt(Len(h.texts)).value
====
